---- MODULE Spec2Model ----
(***************************************************************************)
(* A model of the core of LocalAgents:                                     *)
(*   - OrchestratorQueue   (src/app/state.py)                              *)
(*   - ReActAgent.invoke   (src/core/engine.py)                            *)
(*   - the tracer          (src/core/observability.py)                     *)
(* Each component has its own specification (SpecQueue, SpecQueueThreads,  *)
(* SpecLoop, SpecTracer); the variables of the other components stay      *)
(* at their initial values.                                                *)
(***************************************************************************)
EXTENDS Integers, Sequences, FiniteSets, TLC

\* ------------------------------------------------------------------ bounds
\* submission attempts (submit / submit_threadsafe calls) accepted for processing
\* or scheduled in one behaviour
MaxCalls == 2
\* worker task objects that exist at the same time (a task that is done and no
\* longer referenced is garbage and its slot is used again)
MaxTasks == 2
\* the largest max_iterations an agent is configured with
MaxIterations == 2
\* log_event calls of each producer thread
EventsPerProducer == 1
\* register_sink / unregister_sink calls in one behaviour
MaxSinkOps == 1
\* the tools an agent declares
MaxTools == 2
\* the trace scopes open at a time, and the trace ids minted
MaxDepth == 2
MaxTraces == 2
\* the outermost invocations of one call chain
MaxInvocations == 2
\* the characters of a text
MaxLen == 3
\* the characters of a logged text, the items of a logged list or mapping,
\* the largest OBSERVABILITY_MAX_DETAIL
MaxText == 5
MaxItems == 2
MaxCap == 5
\* the lines of a log file, the largest limit of a read
MaxLines == 4
MaxLimit == 3
\* the events of a log that is scanned
MaxEvents == 6
\* the initialize() and shutdown() calls made on one RuntimeObject
MaxLifecycleCalls == 4

Calls == 1..MaxCalls
Tasks == 1..MaxTasks

\* texts a caller may pass to submit: the empty text and a non-empty one
Texts == {"", "t"}

VARIABLES
    \* ---- OrchestratorQueue
    queue,        \* self._queue: the requests (call ids) waiting, head first
    fut,          \* request.future of each call: [state, val]
    workerTask,   \* self._worker_task: 0 is None, else a task id
    tstate,       \* each worker task: free, waiting (in queue.get), invoking, done
    treq,         \* the request a worker task holds in its local `request`
    tcancel,      \* task.cancel() was called and the task has not run since
    awaited,      \* some stop() coroutine is in `await self._worker_task` on the task
    nextCall,     \* the id the next submission attempt gets
    cstate,       \* each submission attempt: unused, rejected, scheduled, queued
    ctext,        \* the text of each submission attempt
    cfut,         \* the concurrent.futures.Future of a submit_threadsafe call
    raised,       \* the exception the latest submit / submit_threadsafe call raised into its caller
    enqueued,     \* history: the requests in the order they were put
    resolutions,  \* history: [req, kind, by] in the order the workers resolved
    \* ---- the tracer
    obsEnabled,   \* OBSERVABILITY_ENABLED says true
    maxDetailOk,  \* OBSERVABILITY_MAX_DETAIL is unset or a number
    eventSeq,     \* _EVENT_SEQ
    sinks,        \* _SINKS, in registration order
    log,          \* the lines of the JSONL file: the seq of each event written
    delivered,    \* the events (their seq) each subscriber was called with and did not raise on
    ppc,          \* where each producer is in log_event: idle, seq2, write, fanout
    pev,          \* the seq of the event of the producer's current (or last) call
    pall,         \* list(_SINKS) as taken by the call
    pidx,         \* how many subscribers of pall the call has gone through
    pfailed,      \* the subscribers that raised in the call
    pret,         \* how the producer's latest call ended: none (no call), running, None, event, raised
    pgot,         \* the seq of each event the producer's calls returned
    pcount,       \* the log_event calls the producer has begun
    sinkOps,      \* the register_sink / unregister_sink calls made
    allocs,       \* history: the values _next_seq returned, in the order it returned them
    \* ---- the agent loop
    maxIter,      \* max_iterations of each agent
    history,      \* BaseAgent.history of each agent
    frame,        \* the invoke coroutine of each agent: where it is, its locals, its trace scope
    outcome,      \* how the agent's latest invocation ended and what it returned
    inferCalls,   \* the inference calls of the agent's latest invocation
    toolExecs,    \* the execute_tool calls of the agent's latest invocation
    caught,       \* the exceptions the except clause of the loop caught in the latest invocation
    ctxTrace,     \* the context variable _TRACE_ID (0 is None)
    nextTrace,    \* the trace ids minted so far (new_trace_id gives a fresh one)
    emitted,      \* the events logged: type, agent, trace_id
    titer,        \* the iterations begun by the invocation each worker task runs
    \* ---- the construction of an agent
    tools,        \* BaseAgent.tools: the declared tools, in declaration order
    toolsMap,     \* BaseAgent._tools_map: for each name the tool it resolves to (0: not a key)
    apc,          \* the agent object: new (before __init__ ran) or ready
    resolved,     \* what the latest lookup self._tools_map[name] gave (0: none yet, or KeyError)
    \* ---- trace scopes
    scopes,       \* the trace_scope blocks that are open, innermost first
    \* ---- call chains, each in a context of its own
    chainCtx,     \* _TRACE_ID in the context of each call chain (0 is None)
    chainScopes,  \* the trace_scope blocks open in each call chain, innermost first
    chainInv,     \* how many outermost invocations each call chain has begun
    chainTraces,  \* history: [chain, inv, trace], the trace ids an invocation got and logged with
    \* ---- functions called on their own
    arg,          \* the arguments of the call
    ret,          \* what the call returned or raised (NoRet: not called yet)
    \* ---- RuntimeObject
    isInitialized, \* self._is_initialized
    lockOwner,    \* self._lifecycle_lock: the call that holds it (0: not locked)
    lockWaiters,  \* the calls waiting in the lock's acquire(), the first to come first
    rpc,          \* each initialize() / shutdown() call: unused, waiting, hook, returned, raised
    rop,          \* the method each call is a call of
    hookLog       \* history: the hook executions, as begin / end / raise events

qvars == <<queue, fut, workerTask, tstate, treq, tcancel, awaited,
           nextCall, cstate, ctext, cfut, raised, enqueued, resolutions>>

tvars == <<obsEnabled, maxDetailOk, eventSeq, sinks, log, delivered, ppc, pev, pall, pidx,
           pfailed, pret, pgot, pcount, sinkOps, allocs>>

lvars == <<maxIter, history, frame, outcome, inferCalls, toolExecs, caught, ctxTrace,
           nextTrace, emitted>>

mvars == <<tools, toolsMap, apc, resolved>>

cvars == <<chainCtx, chainScopes, chainInv, chainTraces>>

fvars == <<arg, ret>>

xvars == <<mvars, scopes, cvars, fvars>>

rvars == <<isInitialized, lockOwner, lockWaiters, rpc, rop, hookLog>>

vars == <<qvars, tvars, lvars, xvars, titer, rvars>>

\* ------------------------------------------------------------------ helpers
Range(s) == {s[i] : i \in 1..Len(s)}

\* the position of x in s (0 when absent)
Pos(s, x) == IF \E i \in 1..Len(s) : s[i] = x
             THEN CHOOSE i \in 1..Len(s) : s[i] = x
             ELSE 0

NoFuture == [state |-> "none", val |-> 0]
PendingFuture == [state |-> "pending", val |-> 0]
\* a Future that does not count as done when it was cancelled
DoneStatesNotCancelled == {"result", "error"}
\* Future.done(): a result or an exception was set, or the future was cancelled
DoneStates == {"result", "error", "cancelled"}

\* ============================================================ the tracer
Producers == {"p1", "p2"}
Sinks == {"s1", "s2"}

\* the message argument of a log_event call: absent or empty (falsy), a
\* string, or a truthy value that is not a string (it has no len())
Messages == {"none", "str", "num"}

TInit ==
    /\ obsEnabled \in BOOLEAN
    /\ maxDetailOk \in BOOLEAN
    /\ eventSeq = 0
    /\ sinks = <<>>
    /\ log = <<>>
    /\ delivered = [s \in Sinks |-> {}]
    /\ ppc = [p \in Producers |-> "idle"]
    /\ pev = [p \in Producers |-> 0]
    /\ pall = [p \in Producers |-> <<>>]
    /\ pidx = [p \in Producers |-> 0]
    /\ pfailed = [p \in Producers |-> {}]
    /\ pret = [p \in Producers |-> "none"]
    /\ pgot = [p \in Producers |-> {}]
    /\ pcount = [p \in Producers |-> 0]
    /\ sinkOps = 0
    /\ allocs = <<>>

\* the tracer at rest with its default environment, for the specifications of
\* the other components
TIdle ==
    /\ obsEnabled = TRUE
    /\ maxDetailOk = TRUE
    /\ eventSeq = 0
    /\ sinks = <<>>
    /\ log = <<>>
    /\ delivered = [s \in Sinks |-> {}]
    /\ ppc = [p \in Producers |-> "idle"]
    /\ pev = [p \in Producers |-> 0]
    /\ pall = [p \in Producers |-> <<>>]
    /\ pidx = [p \in Producers |-> 0]
    /\ pfailed = [p \in Producers |-> {}]
    /\ pret = [p \in Producers |-> "none"]
    /\ pgot = [p \in Producers |-> {}]
    /\ pcount = [p \in Producers |-> 0]
    /\ sinkOps = 0
    /\ allocs = <<>>

\* register_sink: append unless present
RegisterSink(s) ==
    /\ sinkOps < MaxSinkOps
    /\ sinkOps' = sinkOps + 1
    /\ sinks' = IF s \in Range(sinks) THEN sinks ELSE Append(sinks, s)
    /\ UNCHANGED <<obsEnabled, maxDetailOk, eventSeq, log, delivered, ppc, pev, pall,
                   pidx, pfailed, pret, pgot, pcount, allocs>>

\* unregister_sink: remove when present
UnregisterSink(s) ==
    /\ sinkOps < MaxSinkOps
    /\ sinkOps' = sinkOps + 1
    /\ sinks' = SelectSeq(sinks, LAMBDA x : x # s)
    /\ UNCHANGED <<obsEnabled, maxDetailOk, eventSeq, log, delivered, ppc, pev, pall,
                   pidx, pfailed, pret, pgot, pcount, allocs>>

\* _next_seq without the lock: the counter is read, and written back in a
\* later step
NextSeqUnlocked(p) ==
    \/ /\ ppc[p] = "idle"
       /\ pev' = [pev EXCEPT ![p] = eventSeq]
       /\ ppc' = [ppc EXCEPT ![p] = "seq2"]
       /\ UNCHANGED <<eventSeq, allocs>>
    \/ /\ ppc[p] = "seq2"
       /\ eventSeq' = pev[p] + 1
       /\ pev' = [pev EXCEPT ![p] = pev[p] + 1]
       /\ allocs' = Append(allocs, pev[p] + 1)
       /\ ppc' = [ppc EXCEPT ![p] = "write"]

\* _next_seq: under _LOCK, increment _EVENT_SEQ and return it
next_seq(p) ==
    /\ ppc[p] = "idle"
    /\ eventSeq' = eventSeq + 1
    /\ pev' = [pev EXCEPT ![p] = eventSeq + 1]
    /\ allocs' = Append(allocs, eventSeq + 1)
    /\ ppc' = [ppc EXCEPT ![p] = "write"]

\* log_event up to `"seq": _next_seq()`: with observability disabled it returns
\* None; int(os.getenv("OBSERVABILITY_MAX_DETAIL")) raises ValueError on a
\* value that is not a number; else the seq is allocated
LogBegin(p) ==
    /\ ppc[p] = "seq2" \/ pcount[p] < EventsPerProducer
    /\ pcount' = [pcount EXCEPT ![p] = IF ppc[p] = "idle" THEN @ + 1 ELSE @]
    /\ IF ~obsEnabled
       THEN /\ ppc[p] = "idle"
            /\ pret' = [pret EXCEPT ![p] = "None"]
            /\ UNCHANGED <<eventSeq, pev, allocs, ppc, pall, pidx, pfailed>>
       ELSE IF ~maxDetailOk
            THEN /\ ppc[p] = "idle"
                 /\ pret' = [pret EXCEPT ![p] = "raised"]
                 /\ UNCHANGED <<eventSeq, pev, allocs, ppc, pall, pidx, pfailed>>
            ELSE /\ next_seq(p)
                 /\ pall' = [pall EXCEPT ![p] = <<>>]
                 /\ pidx' = [pidx EXCEPT ![p] = 0]
                 /\ pfailed' = [pfailed EXCEPT ![p] = {}]
                 /\ pret' = [pret EXCEPT ![p] = "running"]
    /\ UNCHANGED <<obsEnabled, maxDetailOk, sinks, log, delivered, pgot, sinkOps>>

\* what log_event goes on with after a subscriber raised: `continue` goes to
\* the rest of the subscribers
AfterSinkRaiseBreak(rest) == <<>>
AfterSinkRaise(rest) == rest

\* the end of log_event: `return event` once the subscribers are through
LogReturn(p, idx2) ==
    IF idx2 >= Len(pall'[p])
    THEN /\ ppc' = [ppc EXCEPT ![p] = "idle"]
         /\ pret' = [pret EXCEPT ![p] = "event"]
         /\ pgot' = [pgot EXCEPT ![p] = @ \cup {pev[p]}]
    ELSE /\ ppc' = [ppc EXCEPT ![p] = "fanout"]
         /\ UNCHANGED <<pret, pgot>>

\* log_event from the event dict to list(_SINKS).  `if message:
\* _truncate(message, max_len)` takes len() of the message, which raises
\* TypeError for a truthy message that is not a string: the call ends there.
\* Else `try: _write_event(event) except Exception: pass`: _write_event
\* serializes the event and appends the line under _LOCK; either may raise
\* (ok = FALSE).
WriteEvent(p, msg, ok) ==
    /\ ppc[p] = "write"
    /\ IF msg = "num"
       THEN /\ ppc' = [ppc EXCEPT ![p] = "idle"]
            /\ pret' = [pret EXCEPT ![p] = "raised"]
            /\ UNCHANGED <<log, pall, pidx, pgot>>
       ELSE /\ log' = IF ok THEN Append(log, pev[p]) ELSE log
            /\ pall' = [pall EXCEPT ![p] = sinks]
            /\ pidx' = [pidx EXCEPT ![p] = 0]
            /\ LogReturn(p, 0)
    /\ UNCHANGED <<obsEnabled, maxDetailOk, eventSeq, sinks, delivered, pev, pfailed,
                   pcount, sinkOps, allocs>>

\* log_event: one turn of `for sink in list(_SINKS)`: the subscriber is
\* called and returns (ok) or raises; after the last one the event is returned
SinkCall(p, ok) ==
    /\ ppc[p] = "fanout"
    /\ pidx[p] < Len(pall[p])
    /\ LET s == pall[p][pidx[p] + 1]
           rest == IF ok THEN SubSeq(pall[p], pidx[p] + 2, Len(pall[p]))
                   ELSE AfterSinkRaise(SubSeq(pall[p], pidx[p] + 2, Len(pall[p])))
           idx2 == Len(pall[p]) - Len(rest)
       IN /\ delivered' = IF ok THEN [delivered EXCEPT ![s] = @ \cup {pev[p]}]
                          ELSE delivered
          /\ pfailed' = [pfailed EXCEPT ![p] = IF ok THEN @ ELSE @ \cup {s}]
          /\ pidx' = [pidx EXCEPT ![p] = idx2]
          /\ UNCHANGED pall
          /\ LogReturn(p, idx2)
    /\ UNCHANGED <<obsEnabled, maxDetailOk, eventSeq, sinks, log, pev, pcount, sinkOps,
                   allocs>>

TNext ==
    \/ \E s \in Sinks : RegisterSink(s) /\ UNCHANGED <<qvars, lvars, xvars, titer, rvars>>
    \/ \E s \in Sinks : UnregisterSink(s) /\ UNCHANGED <<qvars, lvars, xvars, titer, rvars>>
    \/ \E p \in Producers : LogBegin(p) /\ UNCHANGED <<qvars, lvars, xvars, titer, rvars>>
    \/ \E p \in Producers, msg \in Messages, ok \in BOOLEAN :
          WriteEvent(p, msg, ok) /\ UNCHANGED <<qvars, lvars, xvars, titer, rvars>>
    \/ \E p \in Producers, ok \in BOOLEAN : SinkCall(p, ok) /\ UNCHANGED <<qvars, lvars, xvars, titer, rvars>>

\* ============================================================ the queue
QInit ==
    /\ queue = <<>>
    /\ fut = [c \in Calls |-> NoFuture]
    /\ workerTask = 0
    /\ tstate = [t \in Tasks |-> "free"]
    /\ treq = [t \in Tasks |-> 0]
    /\ tcancel = [t \in Tasks |-> FALSE]
    /\ awaited = [t \in Tasks |-> FALSE]
    /\ nextCall = 1
    /\ cstate = [c \in Calls |-> "unused"]
    /\ ctext = [c \in Calls |-> ""]
    /\ cfut = [c \in Calls |-> "none"]
    /\ raised = "none"
    /\ enqueued = <<>>
    /\ resolutions = <<>>

\* Task.done()
TaskDone(t) == tstate[t] = "done"

\* a task object that is done and referenced neither by self._worker_task nor
\* by a waiting stop() is garbage: its slot is free again
Collect(ts, wt, aw) ==
    [t \in Tasks |-> IF ts[t] = "done" /\ wt # t /\ ~aw[t] THEN "free" ELSE ts[t]]

\* OrchestratorQueue.start: create a worker task unless one is referenced and
\* not done.  The two variables it may change are its whole effect.
start ==
    IF workerTask = 0 \/ TaskDone(workerTask)
    THEN \E t \in Tasks :
            /\ tstate[t] = "free" \/ (t = workerTask /\ ~awaited[t])
            /\ \A u \in Tasks : u < t => ~(tstate[u] = "free" \/ (u = workerTask /\ ~awaited[u]))
            /\ workerTask' = t
            /\ tstate' = [Collect(tstate, t, awaited) EXCEPT ![t] = "waiting"]
    ELSE UNCHANGED <<workerTask, tstate>>

\* SubmitAccepted without the put
SubmitAcceptedNoPut(c) ==
    /\ IF workerTask = 0 THEN start ELSE UNCHANGED <<workerTask, tstate>>
    /\ fut' = [fut EXCEPT ![c] = PendingFuture]
    /\ UNCHANGED queue
    /\ enqueued' = Append(enqueued, c)
    /\ cstate' = [cstate EXCEPT ![c] = "queued"]

\* the body of submit after the text check: start a worker when none is
\* referenced, create the future, put the request (the queue is unbounded, so
\* put does not suspend), then wait on the future
SubmitAccepted(c) ==
    /\ IF workerTask = 0 THEN start ELSE UNCHANGED <<workerTask, tstate>>
    /\ fut' = [fut EXCEPT ![c] = PendingFuture]
    /\ queue' = Append(queue, c)
    /\ enqueued' = Append(enqueued, c)
    /\ cstate' = [cstate EXCEPT ![c] = "queued"]

\* OrchestratorQueue.start called by the application
Start ==
    /\ start
    /\ UNCHANGED <<queue, fut, treq, tcancel, awaited, nextCall, cstate, ctext,
                   cfut, raised, enqueued, resolutions>>

\* submit with the worker started before the text is looked at
SubmitStartFirst(text) ==
    /\ IF text = ""
       THEN /\ raised' = "ValueError"
            /\ IF workerTask = 0 THEN start ELSE UNCHANGED <<workerTask, tstate>>
            /\ UNCHANGED <<fut, queue, enqueued, cstate, ctext, nextCall>>
       ELSE /\ nextCall <= MaxCalls
            /\ nextCall' = nextCall + 1
            /\ ctext' = [ctext EXCEPT ![nextCall] = text]
            /\ raised' = "none"
            /\ SubmitAccepted(nextCall)
    /\ UNCHANGED <<treq, tcancel, awaited, cfut, resolutions>>

\* OrchestratorQueue.submit called from a coroutine of the queue's loop
Submit(text) ==
    /\ IF text = ""
       THEN /\ raised' = "ValueError"
            /\ UNCHANGED <<workerTask, tstate, fut, queue, enqueued, cstate, ctext, nextCall>>
       ELSE /\ nextCall <= MaxCalls
            /\ nextCall' = nextCall + 1
            /\ ctext' = [ctext EXCEPT ![nextCall] = text]
            /\ raised' = "none"
            /\ SubmitAccepted(nextCall)
    /\ UNCHANGED <<treq, tcancel, awaited, cfut, resolutions>>

\* what submit_threadsafe does with the loop it found: "scheduled" when
\* _submit will run on it, "foreign" when it is a loop of the calling thread
\* that nothing runs
ThreadCall(text, st) ==
    /\ nextCall <= MaxCalls
    /\ nextCall' = nextCall + 1
    /\ ctext' = [ctext EXCEPT ![nextCall] = text]
    /\ cstate' = [cstate EXCEPT ![nextCall] = st]
    /\ cfut' = [cfut EXCEPT ![nextCall] = "pending"]
    /\ raised' = "none"

\* OrchestratorQueue.submit_threadsafe called from a foreign thread: the loop
\* is taken from the worker task.  Without a worker task the thread asks for
\* its own event loop with asyncio.get_event_loop(): a thread without one
\* gets RuntimeError, a thread whose loop is not running schedules a _submit
\* that never runs, and a thread whose loop is running has _submit (and the
\* worker it starts) run there
SubmitThreadsafe(text) ==
    /\ IF workerTask = 0
       THEN \/ /\ raised' = "RuntimeError"
               /\ UNCHANGED <<cstate, cfut, ctext, nextCall>>
            \/ \E st \in {"foreign", "scheduled"} : ThreadCall(text, st)
       ELSE ThreadCall(text, "scheduled")
    /\ UNCHANGED <<queue, fut, workerTask, tstate, treq, tcancel, awaited,
                   enqueued, resolutions>>

\* the _submit task of a submit_threadsafe call runs on the loop (callbacks
\* scheduled by call_soon_threadsafe run in the order they were scheduled);
\* the ValueError of an empty text goes to the thread's future
SubmitTask(c) ==
    /\ cstate[c] = "scheduled"
    /\ \A d \in Calls : cstate[d] = "scheduled" => c <= d
    /\ IF ctext[c] = ""
       THEN /\ cstate' = [cstate EXCEPT ![c] = "rejected"]
            /\ cfut' = [cfut EXCEPT ![c] = "error"]
            /\ UNCHANGED <<workerTask, tstate, fut, queue, enqueued>>
       ELSE /\ SubmitAccepted(c)
            /\ UNCHANGED cfut
    /\ UNCHANGED <<treq, tcancel, awaited, nextCall, ctext, raised, resolutions>>

\* _submit resumes once its request's future is completed by the worker
SubmitTaskDone(c) ==
    /\ cfut[c] = "pending"
    /\ cstate[c] = "queued"
    /\ fut[c].state \in {"result", "error"}
    /\ cfut' = [cfut EXCEPT ![c] = fut[c].state]
    /\ UNCHANGED <<queue, fut, workerTask, tstate, treq, tcancel, awaited,
                   nextCall, cstate, ctext, raised, enqueued, resolutions>>

\* the caller's wait `await future` is cancelled: asyncio cancels the future
CancelWait(c) ==
    /\ cstate[c] = "queued"
    /\ cfut[c] = "none"
    /\ fut[c].state = "pending"
    /\ fut' = [fut EXCEPT ![c] = [state |-> "cancelled", val |-> 0]]
    /\ UNCHANGED <<queue, workerTask, tstate, treq, tcancel, awaited,
                   nextCall, cstate, ctext, cfut, raised, enqueued, resolutions>>

\* OrchestratorQueue.stop up to its await: cancel the referenced task and wait
\* for it; a task that is already done is awaited without suspending.  Any
\* number of stop() coroutines may wait for the same task.
StopBegin ==
    /\ IF workerTask = 0
       THEN UNCHANGED <<workerTask, tcancel, awaited, tstate>>
       ELSE IF TaskDone(workerTask)
            THEN /\ workerTask' = 0
                 /\ tstate' = Collect(tstate, 0, awaited)
                 /\ UNCHANGED <<tcancel, awaited>>
            ELSE /\ tcancel' = [tcancel EXCEPT ![workerTask] = TRUE]
                 /\ awaited' = [awaited EXCEPT ![workerTask] = TRUE]
                 /\ UNCHANGED <<workerTask, tstate>>
    /\ UNCHANGED <<queue, fut, treq, nextCall, cstate, ctext, cfut, raised,
                   enqueued, resolutions>>

\* OrchestratorQueue.stop after its await: the awaited task is done; `last`
\* says whether this was the last stop() waiting for the task
StopEnd(t, last) ==
    /\ awaited[t]
    /\ TaskDone(t)
    /\ workerTask' = 0
    /\ awaited' = [awaited EXCEPT ![t] = ~last]
    /\ tstate' = Collect(tstate, 0, awaited')
    /\ UNCHANGED <<queue, fut, treq, tcancel, nextCall, cstate,
                   ctext, cfut, raised, enqueued, resolutions>>

\* `if not request.future.done(): request.future.set_result/set_exception`
ResolveUnguarded(f, kind, r) == [state |-> kind, val |-> r]
Resolve(f, kind, r) ==
    IF f.state \in DoneStates THEN f ELSE [state |-> kind, val |-> r]

\* what the worker does after an invocation ended with `kind`: the try/except
\* inside `while True` takes it back to queue.get in both cases
AfterOutcomeDying(kind) == IF kind = "error" THEN "done" ELSE "loop"
AfterOutcome(kind) == "loop"

\* _worker_loop resumes in `await self._queue.get()` with a request available
WorkerGet(t) ==
    /\ tstate[t] = "waiting"
    /\ ~tcancel[t]
    /\ queue # <<>>
    /\ treq' = [treq EXCEPT ![t] = Head(queue)]
    /\ queue' = Tail(queue)
    /\ tstate' = [tstate EXCEPT ![t] = "invoking"]
    /\ UNCHANGED <<fut, workerTask, tcancel, awaited, nextCall, cstate,
                   ctext, cfut, raised, enqueued, resolutions>>

\* _worker_loop resumes in `await orchestrator.invoke(request.text)`: the
\* invocation returned (kind result) or raised (kind error: the orchestrator is
\* missing, or invoke raised); the handle is resolved, task_done() is called,
\* and the loop goes back to queue.get, which returns at once when a request
\* is waiting
WorkerFinish(t, kind) ==
    /\ tstate[t] = "invoking"
    /\ ~tcancel[t]
    /\ LET r == treq[t] IN
       /\ fut' = [fut EXCEPT ![r] = Resolve(fut[r], kind, r)]
       /\ resolutions' = IF fut'[r] = fut[r]
                         THEN resolutions
                         ELSE Append(resolutions, [req |-> r, kind |-> kind, by |-> t])
    /\ IF AfterOutcome(kind) = "loop"
       THEN IF queue # <<>>
            THEN /\ treq' = [treq EXCEPT ![t] = Head(queue)]
                 /\ queue' = Tail(queue)
                 /\ UNCHANGED tstate
            ELSE /\ treq' = [treq EXCEPT ![t] = 0]
                 /\ tstate' = [tstate EXCEPT ![t] = "waiting"]
                 /\ UNCHANGED queue
       ELSE /\ treq' = [treq EXCEPT ![t] = 0]
            /\ tstate' = Collect([tstate EXCEPT ![t] = "done"], workerTask, awaited)
            /\ UNCHANGED queue
    /\ UNCHANGED <<workerTask, tcancel, awaited, nextCall, cstate,
                   ctext, cfut, raised, enqueued>>

\* the cancelled task runs: CancelledError is thrown at its await (it is not
\* an Exception, so the except clause lets it through; a request in flight
\* keeps its future pending) and the task is done
WorkerCancelled(t) ==
    /\ tstate[t] \in {"waiting", "invoking"}
    /\ tcancel[t]
    /\ tstate' = Collect([tstate EXCEPT ![t] = "done"], workerTask, awaited)
    /\ treq' = [treq EXCEPT ![t] = 0]
    /\ tcancel' = [tcancel EXCEPT ![t] = FALSE]
    /\ UNCHANGED <<queue, fut, workerTask, awaited, nextCall, cstate,
                   ctext, cfut, raised, enqueued, resolutions>>

\* ======================================================== the agent loop
\* the orchestrator, with a nested agent and a function as its tools; the
\* nested agent has the function as its tool
Agents == {"orch", "sub"}
RootAgent == "orch"
CallerOf(a) == "orch"

\* BaseAgent._build_tools_map: the names of the agent's tools
ToolsMap(a) == IF a = "orch" THEN {"sub", "fn"} ELSE {"fn"}
\* the names whose tool is the _wrap of a BaseAgent
AgentTools == {"sub"}

\* a parsed tool call: the name, and the kind of the "query" argument (the
\* arguments come from json.loads of model text: a string or, here, a number)
Call(n, q) == [name |-> n, q |-> q]

\* what parse_tool_calls finds in a reply
ToolCallLists ==
    { <<>>,
      <<Call("nope", "str")>>,
      <<Call("fn", "str")>>,
      <<Call("sub", "str")>>,
      <<Call("sub", "num")>>,
      <<Call("nope", "str"), Call("fn", "str")>> }

\* what the inference call of an iteration comes to: it raises (so does a
\* reply whose response is an empty list, at response_text[0]), or it returns
\* a parsed response with an action, a thinking text or none, and a plan
Replies ==
    {[action |-> "raise", calls |-> <<>>, thinking |-> FALSE, plan |-> <<>>]}
    \cup [action : {"other"}, calls : {<<>>}, thinking : BOOLEAN, plan : {<<>>}]
    \cup [action : {"answer"}, calls : {<<>>}, thinking : BOOLEAN, plan : {<<>>, <<"step">>}]
    \cup [action : {"tool"}, calls : ToolCallLists, thinking : BOOLEAN, plan : {<<>>}]

Event(t, a, tr) == [type |-> t, agent |-> a, trace |-> tr]
Msg(role, kind) == [role |-> role, kind |-> kind]
Obs(n, kind) == [name |-> n, kind |-> kind]

IdleFrame == [pc |-> "idle", iter |-> 0, calls |-> <<>>, obs |-> <<>>,
              root |-> FALSE, trace |-> 0, ttrace |-> 0]
NoOutcome == [state |-> "none", iter |-> 0, action |-> "", plan |-> <<>>]

LInit ==
    /\ maxIter \in [Agents -> 0..MaxIterations]
    /\ history = [a \in Agents |-> <<>>]
    /\ frame = [a \in Agents |-> IdleFrame]
    /\ outcome = [a \in Agents |-> NoOutcome]
    /\ inferCalls = [a \in Agents |-> 0]
    /\ toolExecs = [a \in Agents |-> 0]
    /\ caught = [a \in Agents |-> 0]
    /\ ctxTrace = 0
    /\ nextTrace = 0
    /\ emitted = {}
    /\ titer = [t \in Tasks |-> 0]

\* the agents at rest, for the specifications of the other components
LIdle ==
    /\ maxIter = [a \in Agents |-> MaxIterations]
    /\ history = [a \in Agents |-> <<>>]
    /\ frame = [a \in Agents |-> IdleFrame]
    /\ outcome = [a \in Agents |-> NoOutcome]
    /\ inferCalls = [a \in Agents |-> 0]
    /\ toolExecs = [a \in Agents |-> 0]
    /\ caught = [a \in Agents |-> 0]
    /\ ctxTrace = 0
    /\ nextTrace = 0
    /\ emitted = {}
    /\ titer = [t \in Tasks |-> 0]

\* trace_scope: `is_root = existing is None`
IsRootAlways(existing) == TRUE
IsRoot(existing) == existing = 0

\* trace_scope: `trace_id = existing or new_trace_id()`
ScopeTrace(existing) == IF existing # 0 THEN existing ELSE nextTrace + 1

\* trace_scope up to its yield, as the frame of invoke that entered it
EnteredFrame ==
    [pc |-> "loop", iter |-> 0, calls |-> <<>>, obs |-> <<>>,
     root |-> IsRoot(ctxTrace), trace |-> ScopeTrace(ctxTrace), ttrace |-> 0]

\* the first event of trace_scope
StartEvent(a) ==
    Event(IF IsRoot(ctxTrace) THEN "trace_start" ELSE "agent_start", a, ScopeTrace(ctxTrace))

\* the last event of trace_scope (its finally clause)
EndEvent(a) ==
    Event(IF frame[a].root THEN "trace_end" ELSE "agent_end", a, frame[a].trace)

\* `for iteration in range(max_iters)`: another iteration begins
LoopContinuesOneMore(i, m) == i <= m
LoopContinues(i, m) == i < m

\* `if action == "answer": ... return parsed`
IsFinalNever(action) == FALSE
IsFinal(action) == action = "answer"

\* the tool branch giving up the response at the first observation
FrameAfterObsAbort(f, o) ==
    [f EXCEPT !.pc = "loop", !.iter = @ + 1, !.calls = <<>>, !.obs = <<>>]

\* the tool branch after one call gave its observation: after the last call
\* the observations go to the history as one "Result:" message and the
\* iteration is over
FrameAfterObs(f, o) ==
    IF Tail(f.calls) = <<>>
    THEN [f EXCEPT !.pc = "loop", !.iter = @ + 1, !.calls = <<>>, !.obs = <<>>]
    ELSE [f EXCEPT !.pc = "tools", !.calls = Tail(@), !.obs = Append(@, o)]

\* every observation appended as a message of its own, before the joined one
HistoryAfterObsEach(h, f, o) ==
    IF Tail(f.calls) = <<>>
    THEN Append(Append(h, Msg("user", "observation")), Msg("user", "result"))
    ELSE Append(h, Msg("user", "observation"))
\* the history after one call gave its observation: after the last call the
\* joined observations are appended as one "Result:" message
HistoryAfterObs(h, f, o) ==
    IF Tail(f.calls) = <<>>
    THEN Append(h, Msg("user", "result"))
    ELSE h

\* ReActAgent.invoke called by the application with a query text (once in a
\* behaviour): the history is cleared, trace_scope is entered (its first event
\* is logged) and the query is appended
Invoke ==
    /\ frame[RootAgent].pc = "idle"
    /\ outcome[RootAgent].state = "none"
    /\ history' = [history EXCEPT ![RootAgent] = <<Msg("user", "query")>>]
    /\ frame' = [frame EXCEPT ![RootAgent] = EnteredFrame]
    /\ outcome' = [outcome EXCEPT ![RootAgent] = NoOutcome]
    /\ inferCalls' = [inferCalls EXCEPT ![RootAgent] = 0]
    /\ toolExecs' = [toolExecs EXCEPT ![RootAgent] = 0]
    /\ caught' = [caught EXCEPT ![RootAgent] = 0]
    /\ ctxTrace' = IF IsRoot(ctxTrace) THEN ScopeTrace(ctxTrace) ELSE ctxTrace
    /\ nextTrace' = IF ctxTrace = 0 THEN nextTrace + 1 ELSE nextTrace
    /\ emitted' = emitted \cup {StartEvent(RootAgent)}
    /\ UNCHANGED maxIter

\* the beginning of an iteration, before the try block: render, the
\* multimodal collectors (their exceptions are swallowed one by one) and the
\* iteration_start event
IterStart(a) ==
    /\ frame[a].pc = "loop"
    /\ LoopContinues(frame[a].iter, maxIter[a])
    /\ frame' = [frame EXCEPT ![a].pc = "infer"]
    /\ emitted' = emitted \cup {Event("iteration_start", a, frame[a].trace)}
    /\ UNCHANGED <<maxIter, history, outcome, inferCalls, toolExecs, caught, ctxTrace,
                   nextTrace>>

\* invoke returns `out`: trace_scope's finally clause logs the end event
\* and a root scope resets _TRACE_ID (to None, its value before the scope).
\* The invocation of a nested agent returns into execute_tool of its caller,
\* which logs tool_end (with the trace id it read when it began) and returns
\* the observation to the caller's tool branch.
Finish(a, out, E, h) ==
    LET p == CallerOf(a)
        o == Obs(a, "ok")
    IN /\ outcome' = [outcome EXCEPT ![a] = out]
       /\ ctxTrace' = IF frame[a].root THEN 0 ELSE ctxTrace
       /\ IF a = RootAgent
          THEN /\ frame' = [frame EXCEPT ![a].pc = "idle"]
               /\ history' = [history EXCEPT ![a] = h]
               /\ emitted' = E \cup {EndEvent(a)}
          ELSE /\ frame' = [frame EXCEPT ![a].pc = "idle",
                                         ![p] = FrameAfterObs(frame[p], o)]
               /\ history' = [history EXCEPT ![a] = h,
                                             ![p] = HistoryAfterObs(history[p], frame[p], o)]
               /\ emitted' = E \cup {EndEvent(a), Event("tool_end", p, frame[p].ttrace)}

\* the loop ran max_iterations times: the max_iterations event, and the
\* synthetic response is returned
Exhausted(a) ==
    /\ frame[a].pc = "loop"
    /\ ~LoopContinues(frame[a].iter, maxIter[a])
    /\ Finish(a, [state |-> "exhausted", iter |-> 0, action |-> "answer", plan |-> <<>>],
              emitted \cup {Event("max_iterations", a, frame[a].trace)}, history[a])
    /\ UNCHANGED <<maxIter, inferCalls, toolExecs, caught, nextTrace>>

\* the try block of an iteration from the inference call to the branch on the
\* action; `except Exception` logs the error event and appends the error
\* message
Infer(a, r) ==
    /\ frame[a].pc = "infer"
    /\ inferCalls' = [inferCalls EXCEPT ![a] = @ + 1]
    /\ LET tr == frame[a].trace
           E1 == emitted \cup {Event("model_end", a, tr)}
                         \cup (IF r.thinking THEN {Event("thought", a, tr)} ELSE {})
           h1 == Append(history[a], Msg("assistant", r.action))
       IN IF r.action = "raise"
          THEN /\ emitted' = emitted \cup {Event("error", a, tr)}
               /\ history' = [history EXCEPT ![a] = Append(@, Msg("user", "error"))]
               /\ frame' = [frame EXCEPT ![a].pc = "loop", ![a].iter = @ + 1]
               /\ caught' = [caught EXCEPT ![a] = @ + 1]
               /\ UNCHANGED <<outcome, ctxTrace>>
          ELSE IF IsFinal(r.action)
          THEN /\ Finish(a, [state |-> "answer", iter |-> frame[a].iter + 1,
                             action |-> r.action, plan |-> r.plan],
                         E1 \cup {Event("answer", a, tr)}, h1)
               /\ UNCHANGED caught
          ELSE IF r.action = "tool" /\ r.calls # <<>>
          THEN /\ emitted' = E1
               /\ history' = [history EXCEPT ![a] = h1]
               /\ frame' = [frame EXCEPT ![a].pc = "tools", ![a].calls = r.calls,
                                         ![a].obs = <<>>]
               /\ UNCHANGED <<outcome, ctxTrace, caught>>
          ELSE IF r.action = "tool"
          THEN /\ emitted' = E1 \cup {Event("tool_parse_error", a, tr)}
               /\ history' = [history EXCEPT ![a] = Append(h1, Msg("user", "result"))]
               /\ frame' = [frame EXCEPT ![a].pc = "loop", ![a].iter = @ + 1]
               /\ UNCHANGED <<outcome, ctxTrace, caught>>
          ELSE /\ emitted' = E1
               /\ history' = [history EXCEPT ![a] = h1]
               /\ frame' = [frame EXCEPT ![a].pc = "loop", ![a].iter = @ + 1]
               /\ UNCHANGED <<outcome, ctxTrace, caught>>
    /\ UNCHANGED <<maxIter, toolExecs, nextTrace>>

\* ToolCall with execute_tool letting the exception of a function through to
\* the except clause of the iteration
ToolCallPropagates(a, ok) ==
    /\ frame[a].pc = "tools"
    /\ LET c == Head(frame[a].calls)
           n == c.name
           began == Event("tool_start", a, ctxTrace)
       IN IF n \notin ToolsMap(a)
          THEN /\ frame' = [frame EXCEPT ![a] = FrameAfterObs(@, Obs(n, "notfound"))]
               /\ history' = [history EXCEPT ![a] =
                                 HistoryAfterObs(@, frame[a], Obs(n, "notfound"))]
               /\ UNCHANGED <<emitted, toolExecs, outcome, inferCalls, caught, ctxTrace,
                              nextTrace>>
          ELSE IF n \notin AgentTools /\ ~ok
          THEN /\ toolExecs' = [toolExecs EXCEPT ![a] = @ + 1]
               /\ emitted' = emitted \cup {began, Event("error", a, frame[a].trace)}
               /\ frame' = [frame EXCEPT ![a].pc = "loop", ![a].iter = @ + 1,
                                         ![a].calls = <<>>, ![a].obs = <<>>]
               /\ history' = [history EXCEPT ![a] = Append(@, Msg("user", "error"))]
               /\ caught' = [caught EXCEPT ![a] = @ + 1]
               /\ UNCHANGED <<outcome, inferCalls, ctxTrace, nextTrace>>
          ELSE IF n \notin AgentTools
          THEN /\ toolExecs' = [toolExecs EXCEPT ![a] = @ + 1]
               /\ emitted' = emitted \cup
                     {began, Event(IF ok THEN "tool_end" ELSE "tool_error", a, ctxTrace)}
               /\ frame' = [frame EXCEPT ![a] =
                               FrameAfterObs(@, Obs(n, IF ok THEN "ok" ELSE "error"))]
               /\ history' = [history EXCEPT ![a] =
                                 HistoryAfterObs(@, frame[a], Obs(n, IF ok THEN "ok" ELSE "error"))]
               /\ UNCHANGED <<outcome, inferCalls, caught, ctxTrace, nextTrace>>
          ELSE /\ toolExecs' = [toolExecs EXCEPT ![a] = @ + 1, ![n] = 0]
               /\ inferCalls' = [inferCalls EXCEPT ![n] = 0]
               /\ caught' = [caught EXCEPT ![n] = 0]
               /\ nextTrace' = IF ctxTrace = 0 THEN nextTrace + 1 ELSE nextTrace
               /\ ctxTrace' = IF IsRoot(ctxTrace) THEN ScopeTrace(ctxTrace) ELSE ctxTrace
               /\ IF c.q = "str"
                  THEN /\ frame' = [frame EXCEPT ![a].pc = "nested",
                                                 ![a].ttrace = ctxTrace,
                                                 ![n] = EnteredFrame]
                       /\ history' = [history EXCEPT ![n] = <<Msg("user", "query")>>]
                       /\ outcome' = [outcome EXCEPT ![n] = NoOutcome]
                       /\ emitted' = emitted \cup {began, StartEvent(n)}
                  ELSE /\ frame' = [frame EXCEPT ![a] = FrameAfterObs(@, Obs(n, "error"))]
                       /\ history' = [history EXCEPT
                                         ![n] = <<>>,
                                         ![a] = HistoryAfterObs(@, frame[a], Obs(n, "error"))]
                       /\ outcome' = [outcome EXCEPT ![n] = [NoOutcome EXCEPT !.state = "raised"]]
                       /\ emitted' = emitted \cup {began, Event("tool_error", a, ctxTrace)}
    /\ UNCHANGED maxIter

\* one turn of `for tool_name, inputs in tool_calls`: a name that is not in
\* the tools map gives the "Tool not found" observation; else execute_tool
\* logs tool_start and calls the tool.  A function returns (ok) or raises.
\* A nested agent's invoke clears its history and enters trace_scope, whose
\* first log_event raises TypeError when the query is a number (len() in
\* _truncate); execute_tool turns any exception into tool_error and an error
\* text.
ToolCall(a, ok) ==
    /\ frame[a].pc = "tools"
    /\ LET c == Head(frame[a].calls)
           n == c.name
           began == Event("tool_start", a, ctxTrace)
       IN IF n \notin ToolsMap(a)
          THEN /\ frame' = [frame EXCEPT ![a] = FrameAfterObs(@, Obs(n, "notfound"))]
               /\ history' = [history EXCEPT ![a] =
                                 HistoryAfterObs(@, frame[a], Obs(n, "notfound"))]
               /\ UNCHANGED <<emitted, toolExecs, outcome, inferCalls, caught, ctxTrace,
                              nextTrace>>
          ELSE IF n \notin AgentTools
          THEN /\ toolExecs' = [toolExecs EXCEPT ![a] = @ + 1]
               /\ emitted' = emitted \cup
                     {began, Event(IF ok THEN "tool_end" ELSE "tool_error", a, ctxTrace)}
               /\ frame' = [frame EXCEPT ![a] =
                               FrameAfterObs(@, Obs(n, IF ok THEN "ok" ELSE "error"))]
               /\ history' = [history EXCEPT ![a] =
                                 HistoryAfterObs(@, frame[a], Obs(n, IF ok THEN "ok" ELSE "error"))]
               /\ UNCHANGED <<outcome, inferCalls, caught, ctxTrace, nextTrace>>
          ELSE /\ toolExecs' = [toolExecs EXCEPT ![a] = @ + 1, ![n] = 0]
               /\ inferCalls' = [inferCalls EXCEPT ![n] = 0]
               /\ caught' = [caught EXCEPT ![n] = 0]
               /\ nextTrace' = IF ctxTrace = 0 THEN nextTrace + 1 ELSE nextTrace
               /\ ctxTrace' = IF IsRoot(ctxTrace) THEN ScopeTrace(ctxTrace) ELSE ctxTrace
               /\ IF c.q = "str"
                  THEN /\ frame' = [frame EXCEPT ![a].pc = "nested",
                                                 ![a].ttrace = ctxTrace,
                                                 ![n] = EnteredFrame]
                       /\ history' = [history EXCEPT ![n] = <<Msg("user", "query")>>]
                       /\ outcome' = [outcome EXCEPT ![n] = NoOutcome]
                       /\ emitted' = emitted \cup {began, StartEvent(n)}
                  ELSE /\ frame' = [frame EXCEPT ![a] = FrameAfterObs(@, Obs(n, "error"))]
                       /\ history' = [history EXCEPT
                                         ![n] = <<>>,
                                         ![a] = HistoryAfterObs(@, frame[a], Obs(n, "error"))]
                       /\ outcome' = [outcome EXCEPT ![n] = [NoOutcome EXCEPT !.state = "raised"]]
                       /\ emitted' = emitted \cup {began, Event("tool_error", a, ctxTrace)}
    /\ UNCHANGED maxIter

\* ============================================ the construction of an agent
\* the names tools may have, and what a declared tool may be: a BaseAgent, a
\* callable that is not a class, or anything else
ToolNames == {"a", "b"}
ToolKinds == {"agent", "function", "other"}

\* the lists an agent may declare as its tools; a tool is known by its
\* position in the list
DeclaredLists ==
    UNION {[1..n -> [name : ToolNames, kind : ToolKinds]] : n \in 0..MaxTools}

\* `tools_map: dict[str, Callable] = {}`
EmptyMap == [n \in ToolNames |-> 0]

\* `for tool in tools`, from the i-th tool on: an agent and a callable are
\* stored under their name with `tools_map[name] = ...`, anything else is
\* skipped
RECURSIVE BuildFrom(_, _, _)
BuildFrom(ts, i, m) ==
    IF i > Len(ts)
    THEN m
    ELSE BuildFrom(ts, i + 1,
                   IF ts[i].kind \in {"agent", "function"}
                   THEN [m EXCEPT ![ts[i].name] = i]
                   ELSE m)

\* BaseAgent._build_tools_map
BuildToolsMap(ts) == BuildFrom(ts, 1, EmptyMap)

MInit ==
    /\ tools \in DeclaredLists
    /\ toolsMap = EmptyMap
    /\ apc = "new"
    /\ resolved = 0

\* no agent under construction, for the specifications of the other components
MIdle ==
    /\ tools = <<>>
    /\ toolsMap = EmptyMap
    /\ apc = "new"
    /\ resolved = 0

\* BaseAgent.__init__
Construct ==
    /\ apc = "new"
    /\ toolsMap' = BuildToolsMap(tools)
    /\ apc' = "ready"
    /\ UNCHANGED <<tools, resolved>>

\* invoke and execute_tool use the map for a call named n: the membership
\* test, and `fn = self._tools_map[tool_name]`
Lookup(n) ==
    /\ apc = "ready"
    /\ resolved' = toolsMap[n]
    /\ UNCHANGED <<tools, toolsMap, apc>>

MNext ==
    \/ Construct /\ UNCHANGED <<qvars, tvars, lvars, scopes, cvars, fvars, titer, rvars>>
    \/ \E n \in ToolNames : Lookup(n) /\ UNCHANGED <<qvars, tvars, lvars, scopes, cvars, fvars, titer, rvars>>

\* ============================================== functions called on their own
\* no call was made: no argument, no result
NoRet == [raised |-> "not called"]
FIdle == arg = NoRet /\ ret = NoRet

\* -------------------------------------------------------- the response parser
\* the texts, by the characters the parser tells apart: a blank, the two
\* quote characters, and any other character
Strings == UNION {[1..k -> {" ", "'", "\"", "a"}] : k \in 0..MaxLen}

\* str.strip
strip(s) ==
    LET I == {i \in 1..Len(s) : s[i] # " "}
    IN IF I = {} THEN <<>>
       ELSE SubSeq(s, CHOOSE i \in I : \A j \in I : i <= j,
                      CHOOSE i \in I : \A j \in I : i >= j)

\* BaseResponse._strip_wrapping_quotes
strip_wrapping_quotes(value) ==
    LET text == strip(value) IN
    IF Len(text) >= 2 /\ text[1] = text[Len(text)] /\ text[1] \in {"'", "\""}
    THEN SubSeq(text, 2, Len(text) - 1)
    ELSE value

\* the lines of a text that has no `key: value` line of the schema
NoToon == [action |-> "absent", response |-> FALSE, others |-> "none"]

\* BaseResponse._parse_toon on the lines of the text: it raises when the action
\* value is a list (`data.get("action", "").strip()`), else returns the data; an
\* action that is not empty and not a literal becomes tool, and a call
\* expression moves to response when no response was written
parse_toon(t) ==
    IF t.action = "list"
    THEN [raised |-> TRUE]
    ELSE [raised |-> FALSE,
          action |-> IF t.action \in {"name", "call"} THEN "tool" ELSE t.action,
          response |-> [src |-> IF t.response THEN "field"
                                ELSE IF t.action = "call" THEN "moved" ELSE "default",
                        text |-> <<>>],
          others |-> t.others,
          empty |-> t = NoToon]

\* model_validate with every written value accepted as it stands
ValidatesAnything(cls, action, ok) == cls # "Strict"
\* cls.model_validate(data): the required field of Strict is not among the
\* written ones; the action of ReActResponse is Literal["tool", "answer"];
\* the other values have the types of their fields
Validates(cls, action, ok) ==
    /\ cls # "Strict"
    /\ cls = "ReAct" => action \in {"absent", "tool", "answer"}
    /\ ok

\* a schema whose validator leaves the response as it was written
normalize_nothing(cls, r) == r
\* ReActResponse._normalize_fields on the response
normalize_fields(cls, r) ==
    IF cls = "ReAct"
    THEN [r EXCEPT !.text = strip_wrapping_quotes(@)]
    ELSE r

\* BaseResponse.from_raw: what it returns (by which path, with which action
\* and response) or raises.  The action of a validated instance defaults to
\* "answer"; a schema without the field has none.  The last step takes the
\* stripped raw text as response, validated or, when that fails, constructed
\* without validation.  The characters of a response written in the text are
\* raw.written when the input tells them (else they are not modelled): the
\* JSON value as it stands, the value of a line stripped
from_raw(cls, raw) ==
    LET ActionOf(action) ==
            IF cls # "ReAct" THEN "none" ELSE IF action = "absent" THEN "answer" ELSE action
        Returned(via, action, response) ==
            [raised |-> "none", via |-> via, action |-> action, response |-> response]
        written == IF "written" \in DOMAIN raw THEN raw.written ELSE <<>>
        Written == normalize_fields(cls, [src |-> "field", text |-> written])
        OnLine(r) == normalize_fields(cls, IF r.src = "field"
                                           THEN [r EXCEPT !.text = strip(written)] ELSE r)
        Fallback ==
            IF Validates(cls, "absent", TRUE)
            THEN Returned("fallback", ActionOf("absent"),
                          normalize_fields(cls, [src |-> "raw", text |-> strip(raw.text)]))
            ELSE Returned("construct", "none", [src |-> "raw", text |-> strip(raw.text)])
    IN IF raw.kind = "instance"
       THEN Returned("instance", raw.action, Written)
       ELSE IF raw.kind = "mapping"
       THEN IF Validates(cls, raw.action, raw.ok)
            THEN Returned("mapping", ActionOf(raw.action), Written)
            ELSE [raised |-> "ValidationError"]
       ELSE LET j == raw.json
                t == parse_toon(raw.toon)
            IN IF j.found = "fields" /\ Validates(cls, j.action, j.ok)
               THEN Returned("json", ActionOf(j.action), Written)
               ELSE IF t.raised \/ t.empty
               THEN Fallback
               ELSE IF Validates(cls, t.action, t.others \in {"none", "ok"})
               THEN Returned("toon", ActionOf(t.action), OnLine(t.response))
               ELSE IF Validates(cls, t.action, t.others \in {"none", "ok", "fixable"})
               THEN Returned("toon coerced", ActionOf(t.action), OnLine(t.response))
               ELSE Fallback

\* a ReActResponse with the action and the response of v written as text: in
\* the line-structured format of get_instructions, one `name: value` line per
\* field, or as one JSON object on one line (no line of which begins with a
\* field name)
dumps(fmt, v) ==
    [kind |-> "string",
     json |-> IF fmt = "json" THEN [found |-> "fields", action |-> v.action, ok |-> TRUE]
              ELSE [found |-> "none", action |-> "absent", ok |-> TRUE],
     toon |-> IF fmt = "json" THEN NoToon
              ELSE [action |-> v.action, response |-> TRUE, others |-> "none"],
     text |-> <<"a">>,
     written |-> v.response]

\* a value is written as text and the text is parsed
RoundTrip ==
    /\ arg.fn = "round_trip"
    /\ ret = NoRet
    /\ ret' = from_raw("ReAct", dumps(arg.fmt, arg.value))
    /\ UNCHANGED arg

\* cls.from_raw(raw) is called
Parse ==
    /\ arg.fn = "from_raw"
    /\ ret = NoRet
    /\ ret' = from_raw(arg.cls, arg.raw)
    /\ UNCHANGED arg

\* --------------------------------------------------------------- size capping
Max(a, b) == IF a > b THEN a ELSE b
\* a text value
Str(t) == [k |-> "str", s |-> t]

\* the cut not clamped at 0: text[: max_len - 3] + "...", where a negative
\* index counts from the end
truncate_unclamped(text, max_len) ==
    LET Slice(t, n) == SubSeq(t, 1, IF n < 0 THEN Max(0, Len(t) + n)
                                    ELSE IF n < Len(t) THEN n ELSE Len(t))
    IN IF text = [k |-> "none"] THEN text
       ELSE IF max_len <= 0 \/ Len(text.s) <= max_len THEN text
       ELSE Str(Slice(text.s, max_len - 3) \o <<".", ".", ".">>)
\* _truncate
truncate(text, max_len) ==
    LET Slice(t, n) == SubSeq(t, 1, IF n < 0 THEN Max(0, Len(t) + n)
                                    ELSE IF n < Len(t) THEN n ELSE Len(t))
    IN IF text = [k |-> "none"] THEN text
       ELSE IF max_len <= 0 \/ Len(text.s) <= max_len THEN text
       ELSE Str(Slice(text.s, Max(0, max_len - 3)) \o <<".", ".", ".">>)

\* _sanitize.  The values of meta: None, a number, a text, an object of
\* another type (with the text json.dumps or str gives for it), a list, a
\* mapping (its items in insertion order, the keys integers or strings).
\* The dict comprehension assigns str(k) item by item: a key that is present
\* keeps its place
RECURSIVE sanitize(_, _)
sanitize(value, max_len) ==
    LET Put(d, key, v) ==
            IF \E i \in 1..Len(d) : d[i].key = key
            THEN [i \in 1..Len(d) |-> IF d[i].key = key THEN [key |-> key, v |-> v] ELSE d[i]]
            ELSE Append(d, [key |-> key, v |-> v])
        RECURSIVE sanitize_items(_, _)
        sanitize_items(items, acc) ==
            IF items = <<>> THEN acc
            ELSE sanitize_items(Tail(items),
                                Put(acc, [t |-> "str", s |-> Head(items).key.s],
                                    sanitize(Head(items).v, max_len)))
    IN IF value.k = "none" THEN value
       ELSE IF value.k = "str" THEN truncate(value, max_len)
       ELSE IF value.k = "num" THEN value
       ELSE IF value.k = "list"
       THEN [k |-> "list",
             items |-> [i \in 1..Len(value.items) |-> sanitize(value.items[i], max_len)]]
       ELSE IF value.k = "dict"
       THEN [k |-> "dict", items |-> sanitize_items(value.items, <<>>)]
       ELSE truncate(Str(value.dump), max_len)

\* the applications made so far, and what is recorded of an application: the
\* result, and the result of the first one
Times == IF ret = NoRet THEN 0 ELSE ret.times
Applied(v) ==
    [raised |-> "none", value |-> v,
     first |-> IF ret = NoRet THEN v ELSE ret.first,
     times |-> Times + 1]

\* _truncate(text, max_len), applied to the text and then to its own result
Truncate ==
    /\ arg.fn = "truncate"
    /\ Times < 2
    /\ ret' = Applied(truncate(IF ret = NoRet THEN arg.value ELSE ret.value, arg.cap))
    /\ UNCHANGED arg

\* _sanitize(value, max_len), applied to the value and then to its own result
Sanitize ==
    /\ arg.fn = "sanitize"
    /\ Times < 2
    /\ ret' = Applied(sanitize(IF ret = NoRet THEN arg.value ELSE ret.value, arg.cap))
    /\ UNCHANGED arg

\* ------------------------------------------------------ invoke under the tracer
\* what an invocation did and returned, and the events its log_event calls
\* logged (their types, in the order of the calls)
Ran(exc, result, infers, execs, h, E) ==
    [raised |-> exc, result |-> result, inferCalls |-> infers, toolExecs |-> execs,
     history |-> h, events |-> E]

\* a log_event that logs whatever OBSERVABILITY_ENABLED says
log_event_unconditional(E, enabled, type) == Append(E, type)
\* log_event(type) after the events E: a disabled log_event returns at its
\* first line
log_event(E, enabled, type) == IF enabled THEN Append(E, type) ELSE E

\* `for iteration in range(max_iters)` from iteration i on, for an agent whose
\* tools are functions; execute_tool runs the calls whose name is in the
\* tools map, logging tool_start and then tool_end or tool_error
RECURSIVE invoke_loop(_, _, _, _, _, _, _)
invoke_loop(enabled, script, i, infers, execs, h, E) ==
    LET RECURSIVE Executed(_)
        Executed(calls) ==
            IF calls = <<>> THEN 0
            ELSE (IF Head(calls).name \in ToolsMap("sub") THEN 1 ELSE 0)
                 + Executed(Tail(calls))
        RECURSIVE ToolEvents(_, _, _)
        ToolEvents(F, calls, ok) ==
            IF calls = <<>> THEN F
            ELSE IF Head(calls).name \in ToolsMap("sub")
            THEN ToolEvents(log_event(log_event(F, enabled, "tool_start"), enabled,
                                      IF ok THEN "tool_end" ELSE "tool_error"),
                            Tail(calls), ok)
            ELSE ToolEvents(F, Tail(calls), ok)
    IN IF ~LoopContinues(i, Len(script))
       THEN Ran("none", "exhausted", infers, execs, h, log_event(E, enabled, "max_iterations"))
       ELSE LET r == script[i + 1].reply
                h1 == Append(h, Msg("assistant", r.action))
                E1 == log_event(E, enabled, "iteration_start")
                E2 == log_event(E1, enabled, "model_end")
            IN IF r.action = "raise"
               THEN invoke_loop(enabled, script, i + 1, infers + 1, execs,
                                Append(h, Msg("user", "error")),
                                log_event(E1, enabled, "error"))
               ELSE IF IsFinal(r.action)
               THEN Ran("none", "answer", infers + 1, execs, h1,
                        log_event(E2, enabled, "answer"))
               ELSE IF r.action = "tool"
               THEN invoke_loop(enabled, script, i + 1, infers + 1,
                                execs + Executed(r.calls),
                                Append(h1, Msg("user", "result")),
                                IF r.calls = <<>>
                                THEN log_event(E2, enabled, "tool_parse_error")
                                ELSE ToolEvents(E2, r.calls, script[i + 1].ok))
               ELSE invoke_loop(enabled, script, i + 1, infers + 1, execs, h1, E2)

\* ReActAgent.invoke(query) with max_iterations = Len(script), called with no
\* trace id in the context: the history is cleared, trace_scope logs
\* trace_start, the query is appended and the loop runs; when the body
\* returns, the finally clause of trace_scope logs trace_end.  The log_event
\* call raises when observability is enabled and OBSERVABILITY_MAX_DETAIL is
\* not a number (see LogBegin); a disabled log_event returns at once
invoke(enabled, detailOk, query, script) ==
    IF enabled /\ (~detailOk \/ query = "num")
    THEN Ran("ValueError", "none", 0, 0, <<>>, <<>>)
    ELSE LET r == invoke_loop(enabled, script, 0, 0, 0, <<Msg("user", "query")>>,
                              log_event(<<>>, enabled, "trace_start"))
         IN [r EXCEPT !.events = log_event(@, enabled, "trace_end")]

\* BaseAgent.parse_tool_calls on a response text, given as its pieces in
\* textual order: for every match of the pattern name({...}) one call, with
\* the arguments json.loads gives or, on JSONDecodeError, the matched text as
\* `query`; an exception of json.loads that is no JSONDecodeError (the
\* RecursionError of an object nested too deep) leaves the function
parse_tool_calls(pieces) ==
    LET RECURSIVE Matches(_, _)
        Matches(i, results) ==
            IF i > Len(pieces) THEN [raised |-> "none", calls |-> results]
            ELSE IF pieces[i] = "prose" THEN Matches(i + 1, results)
            ELSE IF pieces[i] = "call too deep" THEN [raised |-> "RecursionError", calls |-> <<>>]
            ELSE Matches(i + 1, Append(results,
                     [at |-> i, args |-> IF pieces[i] = "call" THEN "decoded" ELSE "query"]))
    IN Matches(1, <<>>)

\* the tool branch of an iteration parses the response
ParseToolCalls ==
    /\ arg.fn = "parse_tool_calls"
    /\ ret = NoRet
    /\ ret' = parse_tool_calls(arg.pieces)
    /\ UNCHANGED arg

\* invoke is called under a setting of the tracer
InvokeScript ==
    /\ arg.fn = "invoke"
    /\ ret = NoRet
    /\ ret' = invoke(arg.enabled, arg.detailOk, arg.query, arg.script)
    /\ UNCHANGED arg

\* ------------------------------------------------------------ reading the log
\* a list that keeps everything appended to it
list_append(d, x, maxlen) == Append(d, x)
\* deque(maxlen=...).append: a full deque drops its oldest element
deque_append(d, x, maxlen) ==
    IF Len(d) >= maxlen THEN Append(Tail(d), x) ELSE Append(d, x)

\* read_recent_events(limit): `for raw in f` puts the stripped lines that
\* are not empty into the deque; `for line in lines` parses every kept line,
\* skipping the failures
read_recent_events(file, lines, limit) ==
    LET RECURSIVE read_lines(_, _)
        read_lines(i, d) ==
            IF i > Len(lines) THEN d
            ELSE read_lines(i + 1, IF lines[i] # "blank"
                                   THEN deque_append(d, i, Max(1, limit)) ELSE d)
        RECURSIVE parse_lines(_, _)
        parse_lines(d, events) ==
            IF d = <<>> THEN events
            ELSE parse_lines(Tail(d), IF lines[Head(d)] = "event"
                                      THEN Append(events, Head(d)) ELSE events)
    IN IF file # "ok" THEN <<>> ELSE parse_lines(read_lines(1, <<>>), <<>>)

\* read_recent_events(limit) is called
ReadRecent ==
    /\ arg.fn = "read_recent_events"
    /\ ret = NoRet
    /\ ret' = [raised |-> "none",
               events |-> read_recent_events(arg.file, arg.lines, arg.limit)]
    /\ UNCHANGED arg

FNext ==
    \/ Parse /\ UNCHANGED <<qvars, tvars, lvars, mvars, scopes, cvars, titer, rvars>>
    \/ Truncate /\ UNCHANGED <<qvars, tvars, lvars, mvars, scopes, cvars, titer, rvars>>
    \/ Sanitize /\ UNCHANGED <<qvars, tvars, lvars, mvars, scopes, cvars, titer, rvars>>
    \/ InvokeScript /\ UNCHANGED <<qvars, tvars, lvars, mvars, scopes, cvars, titer, rvars>>
    \/ ReadRecent /\ UNCHANGED <<qvars, tvars, lvars, mvars, scopes, cvars, titer, rvars>>
    \/ RoundTrip /\ UNCHANGED <<qvars, tvars, lvars, mvars, scopes, cvars, titer, rvars>>
    \/ ParseToolCalls /\ UNCHANGED <<qvars, tvars, lvars, mvars, scopes, cvars, titer, rvars>>

\* ============================================================ trace scopes
\* the variables of the agent loop that trace_scope does not touch
lloop == <<maxIter, history, frame, outcome, inferCalls, toolExecs, caught>>

SIdle == scopes = <<>>

\* the call chains: coroutines run as separate asyncio tasks, each with the
\* copy of the context it was created with
Chains == {"c1", "c2"}

CIdle ==
    /\ chainCtx = [ch \in Chains |-> 0]
    /\ chainScopes = [ch \in Chains |-> <<>>]
    /\ chainInv = [ch \in Chains |-> 0]
    /\ chainTraces = {}

XIdle == MIdle /\ SIdle /\ CIdle /\ FIdle

\* the log_event call at the start of trace_scope raises: the query is a
\* truthy value that is not a string, or OBSERVABILITY_MAX_DETAIL is not a
\* number (see LogBegin and WriteEvent)
StartLogRaises(msg) == obsEnabled /\ (~maxDetailOk \/ msg = "num")

\* what log_event adds to the log
Logged(e) == IF obsEnabled THEN emitted \cup {e} ELSE emitted

\* `with trace_scope(agent, query)` is entered: the id is read, minted and
\* installed by a root scope, then the start event is logged; when that
\* raises, the generator ends before its try block and the exception leaves
\* the with statement
ScopeEnter(a, msg) ==
    /\ Len(scopes) < MaxDepth
    /\ ctxTrace = 0 => nextTrace < MaxTraces
    /\ ctxTrace' = IF IsRoot(ctxTrace) THEN ScopeTrace(ctxTrace) ELSE ctxTrace
    /\ nextTrace' = IF ctxTrace = 0 THEN nextTrace + 1 ELSE nextTrace
    /\ IF StartLogRaises(msg)
       THEN UNCHANGED <<scopes, emitted>>
       ELSE /\ scopes' = <<[root |-> IsRoot(ctxTrace), trace |-> ScopeTrace(ctxTrace),
                            entry |-> ctxTrace, agent |-> a]>> \o scopes
            /\ emitted' = Logged(StartEvent(a))
    /\ UNCHANGED <<lloop, qvars, tvars, mvars, cvars, fvars, titer, rvars>>

\* the body of the innermost scope returns or raises: the finally clause logs
\* the end event and a root scope resets _TRACE_ID with its token
ScopeExit ==
    /\ scopes # <<>>
    /\ LET top == Head(scopes) IN
       /\ emitted' = Logged(Event(IF top.root THEN "trace_end" ELSE "agent_end",
                                  top.agent, top.trace))
       /\ ctxTrace' = IF top.root THEN top.entry ELSE ctxTrace
    /\ scopes' = Tail(scopes)
    /\ UNCHANGED <<nextTrace, lloop, qvars, tvars, mvars, cvars, fvars, titer, rvars>>

\* trace_scope is entered in call chain ch (see ScopeEnter): by an outermost
\* invocation when no scope of the chain is open, else by a nested agent
ChainEnter(ch, msg) ==
    LET existing == chainCtx[ch]
        trace == ScopeTrace(existing)
        \* the invocation of the chain that is running, or begins with this scope
        inv == IF chainScopes[ch] = <<>> THEN chainInv[ch] + 1 ELSE chainInv[ch]
    IN /\ Len(chainScopes[ch]) < MaxDepth
       /\ chainScopes[ch] = <<>> => chainInv[ch] < MaxInvocations
       /\ chainInv' = [chainInv EXCEPT ![ch] = inv]
       /\ chainCtx' = [chainCtx EXCEPT ![ch] = IF IsRoot(existing) THEN trace ELSE existing]
       /\ nextTrace' = IF existing = 0 THEN nextTrace + 1 ELSE nextTrace
       /\ chainTraces' = chainTraces \cup
              {[chain |-> ch, inv |-> inv, trace |-> trace]}
       /\ IF StartLogRaises(msg)
          THEN UNCHANGED chainScopes
          ELSE chainScopes' = [chainScopes EXCEPT ![ch] =
                  <<[root |-> IsRoot(existing), trace |-> trace, entry |-> existing]>> \o @]
       /\ UNCHANGED <<qvars, tvars, mvars, scopes, fvars, lloop, ctxTrace, emitted, titer, rvars>>

\* execute_tool logs the events of a tool call inside a scope of chain ch
\* with the id it reads from the context: `current_trace_id()`
ChainToolEvent(ch) ==
    /\ chainScopes[ch] # <<>>
    /\ obsEnabled
    /\ chainTraces' = chainTraces \cup
           {[chain |-> ch, inv |-> chainInv[ch], trace |-> chainCtx[ch]]}
    /\ UNCHANGED <<chainCtx, chainScopes, chainInv, qvars, tvars, mvars, scopes, fvars, lvars, titer, rvars>>

\* the innermost scope of chain ch is left (see ScopeExit)
ChainExit(ch) ==
    /\ chainScopes[ch] # <<>>
    /\ LET top == Head(chainScopes[ch]) IN
       chainCtx' = [chainCtx EXCEPT ![ch] = IF top.root THEN top.entry ELSE @]
    /\ chainScopes' = [chainScopes EXCEPT ![ch] = Tail(@)]
    /\ UNCHANGED <<chainInv, chainTraces, qvars, tvars, mvars, scopes, fvars, lvars, titer, rvars>>

CNext ==
    \/ \E ch \in Chains, msg \in Messages : ChainEnter(ch, msg)
    \/ \E ch \in Chains : ChainToolEvent(ch)
    \/ \E ch \in Chains : ChainExit(ch)

\* =================================================== the trace summaries
\* trace_scope is entered (see ScopeEnter), observability enabled: the id is
\* read, minted and installed by a root scope, and the start event is appended
\* to the log (arg.log) unless log_event raises on the query (then no scope is
\* opened); the seq of an event is its place among the events written, the
\* time is told by the number of events written, and duration 0 stands for
\* an event without duration_ms
TraceEnter(a, msg) ==
    LET root == IsRoot(ctxTrace)
        tr == ScopeTrace(ctxTrace)
    IN /\ Len(scopes) < MaxDepth
       /\ ctxTrace = 0 => nextTrace < MaxTraces
       /\ scopes # <<>> => a # Head(scopes).agent
       /\ Len(arg.log) + 2 * (Len(scopes) + 1) <= MaxEvents
       /\ ctxTrace' = IF root THEN tr ELSE ctxTrace
       /\ nextTrace' = IF ctxTrace = 0 THEN nextTrace + 1 ELSE nextTrace
       /\ IF StartLogRaises(msg)
          THEN UNCHANGED <<arg, scopes>>
          ELSE /\ arg' = [log |-> Append(arg.log,
                              [seq |-> Len(arg.log) + 1, trace_id |-> tr,
                               type |-> IF root THEN "trace_start" ELSE "agent_start",
                               agent |-> a, duration_ms |-> 0])]
               /\ scopes' = <<[root |-> root, trace |-> tr, agent |-> a,
                               entry |-> ctxTrace, start |-> Len(arg.log)]>> \o scopes
       /\ UNCHANGED <<ret, qvars, tvars, lloop, emitted, mvars, cvars, titer, rvars>>

\* a trace_scope without `finally`: the body raises and no end event is logged
TraceExitRaised ==
    /\ scopes # <<>>
    /\ ctxTrace' = IF Head(scopes).root THEN Head(scopes).entry ELSE ctxTrace
    /\ scopes' = Tail(scopes)
    /\ UNCHANGED <<arg, ret, nextTrace, qvars, tvars, lloop, emitted, mvars, cvars, titer, rvars>>
\* trace_scope is left, its body having returned or raised (see ScopeExit):
\* the end event carries the time since the scope was entered, and a root
\* scope resets _TRACE_ID
TraceExit ==
    /\ scopes # <<>>
    /\ LET top == Head(scopes) IN
       /\ arg' = [log |-> Append(arg.log,
                      [seq |-> Len(arg.log) + 1, trace_id |-> top.trace,
                       type |-> IF top.root THEN "trace_end" ELSE "agent_end",
                       agent |-> top.agent, duration_ms |-> Len(arg.log) - top.start])]
       /\ ctxTrace' = IF top.root THEN top.entry ELSE ctxTrace
    /\ scopes' = Tail(scopes)
    /\ UNCHANGED <<ret, nextTrace, qvars, tvars, lloop, emitted, mvars, cvars, titer, rvars>>

\* `"duration_ms" in meta and e.get("type") in ("trace_end", "agent_end")`
IsLifecycleEnd(e) == e.duration_ms # 0 /\ e.type \in {"trace_end", "agent_end"}

\* list_traces on the events of the file: the trace ids in the order of
\* their first event; per trace its events sorted by seq, and the duration
\* loop: `duration_ms = None` (0 here), then the events in order until one
\* is a lifecycle end with a duration: `break`
list_traces(events) ==
    LET RECURSIVE TraceIds(_, _)
        TraceIds(es, seen) ==
            IF es = <<>> THEN seen
            ELSE TraceIds(Tail(es),
                          IF \E i \in 1..Len(seen) : seen[i] = Head(es).trace_id
                          THEN seen ELSE Append(seen, Head(es).trace_id))
        RECURSIVE SortBySeq(_)
        SortBySeq(es) ==
            IF es = <<>> THEN <<>>
            ELSE LET i == CHOOSE i \in 1..Len(es) :
                              \A j \in 1..Len(es) :
                                  es[i].seq < es[j].seq \/ (es[i].seq = es[j].seq /\ i <= j)
                 IN <<es[i]>> \o SortBySeq(SubSeq(es, 1, i - 1) \o SubSeq(es, i + 1, Len(es)))
        RECURSIVE Duration(_)
        Duration(tevents) ==
            IF tevents = <<>> THEN 0
            ELSE IF IsLifecycleEnd(Head(tevents)) THEN Head(tevents).duration_ms
            ELSE Duration(Tail(tevents))
        ids == TraceIds(events, <<>>)
    IN [n \in 1..Len(ids) |->
           LET tevents == SortBySeq(SelectSeq(events, LAMBDA e : e.trace_id = ids[n]))
           IN [trace_id |-> ids[n],
               event_count |-> Len(tevents),
               duration_ms |-> Duration(tevents)]]

\* list_traces() is called: it reads the file and returns the summaries
ListTraces ==
    /\ ret' = [raised |-> "none", scanned |-> arg.log, traces |-> list_traces(arg.log)]
    /\ UNCHANGED <<arg, scopes, qvars, tvars, lvars, mvars, cvars, titer, rvars>>

UNext ==
    \/ \E a \in Agents, msg \in Messages : TraceEnter(a, msg)
    \/ TraceExit
    \/ ListTraces

SNext ==
    \/ \E a \in Agents, msg \in Messages : ScopeEnter(a, msg)
    \/ ScopeExit

LNext ==
    \/ Invoke /\ UNCHANGED <<qvars, tvars, xvars, titer, rvars>>
    \/ \E a \in Agents : IterStart(a) /\ UNCHANGED <<qvars, tvars, xvars, titer, rvars>>
    \/ \E a \in Agents : Exhausted(a) /\ UNCHANGED <<qvars, tvars, xvars, titer, rvars>>
    \/ \E a \in Agents, r \in Replies : Infer(a, r) /\ UNCHANGED <<qvars, tvars, xvars, titer, rvars>>
    \/ \E a \in Agents, ok \in BOOLEAN : ToolCall(a, ok) /\ UNCHANGED <<qvars, tvars, xvars, titer, rvars>>

QNext ==
    \/ Start /\ UNCHANGED <<tvars, lvars, xvars, titer, rvars>>
    \/ \E text \in Texts : Submit(text) /\ UNCHANGED <<tvars, lvars, xvars, titer, rvars>>
    \/ \E c \in Calls : CancelWait(c) /\ UNCHANGED <<tvars, lvars, xvars, titer, rvars>>
    \/ StopBegin /\ UNCHANGED <<tvars, lvars, xvars, titer, rvars>>
    \/ \E t \in Tasks, last \in BOOLEAN : StopEnd(t, last) /\ UNCHANGED <<tvars, lvars, xvars, titer, rvars>>
    \/ \E t \in Tasks : WorkerGet(t) /\ UNCHANGED <<tvars, lvars, xvars, titer, rvars>>
    \/ \E t \in Tasks, kind \in {"result", "error"} : WorkerFinish(t, kind) /\ UNCHANGED <<tvars, lvars, xvars, titer, rvars>>
    \/ \E t \in Tasks : WorkerCancelled(t) /\ UNCHANGED <<tvars, lvars, xvars, titer, rvars>>

\* ============================================================ RuntimeObject
\* core/engine.py, RuntimeObject: initialize() and shutdown() are called
\* concurrently, as coroutines of one event loop, on one object. A call runs
\* from one await to the next in one step.
Lifecyclers == 1..MaxLifecycleCalls

\* the hook a method runs
hookOf(op) == IF op = "initialize" THEN "_initialize_impl" ELSE "_shutdown_impl"

\* the object after construction
RInit ==
    /\ isInitialized = FALSE
    /\ lockOwner = 0
    /\ lockWaiters = <<>>
    /\ rpc = [c \in Lifecyclers |-> "unused"]
    /\ rop = [c \in Lifecyclers |-> "none"]
    /\ hookLog = <<>>

\* what `async with self._lifecycle_lock` finds
lockedNever == FALSE
locked == lockOwner # 0

HookEvent(c, ev) == [call |-> c, hook |-> hookOf(rop'[c]), ev |-> ev]

\* the block under `async with self._lifecycle_lock` of call c, entered with
\* the lock taken, up to its first await or to its end (where __aexit__
\* releases the lock); how: the hook, when called, returns a value that is
\* not awaitable, returns an awaitable (that is then awaited), or raises
LockedBlock(c, how) ==
    IF isInitialized = (rop'[c] = "initialize")
    THEN \* `return self` / `return`: no hook runs
         /\ rpc' = [rpc EXCEPT ![c] = "returned"]
         /\ lockOwner' = 0
         /\ UNCHANGED <<isInitialized, hookLog>>
    ELSE IF how = "awaitable"
    THEN /\ rpc' = [rpc EXCEPT ![c] = "hook"]
         /\ lockOwner' = c
         /\ hookLog' = Append(hookLog, HookEvent(c, "begin"))
         /\ UNCHANGED isInitialized
    ELSE IF how = "raise"
    THEN /\ rpc' = [rpc EXCEPT ![c] = "raised"]
         /\ lockOwner' = 0
         /\ hookLog' = hookLog \o <<HookEvent(c, "begin"), HookEvent(c, "raise")>>
         /\ UNCHANGED isInitialized
    ELSE /\ rpc' = [rpc EXCEPT ![c] = "returned"]
         /\ lockOwner' = 0
         /\ isInitialized' = (rop'[c] = "initialize")
         /\ hookLog' = hookLog \o <<HookEvent(c, "begin"), HookEvent(c, "end")>>

\* a call of initialize() or shutdown() begins: it takes the lock when the
\* lock is free and nobody waits for it, and waits otherwise
EnterLock(c, op, how) ==
    /\ rpc[c] = "unused"
    /\ rop' = [rop EXCEPT ![c] = op]
    /\ IF locked \/ lockWaiters # <<>>
       THEN /\ lockWaiters' = Append(lockWaiters, c)
            /\ rpc' = [rpc EXCEPT ![c] = "waiting"]
            /\ UNCHANGED <<isInitialized, lockOwner, hookLog>>
       ELSE /\ LockedBlock(c, how)
            /\ UNCHANGED lockWaiters

initialize(c, how) == EnterLock(c, "initialize", how)

shutdown(c, how) == EnterLock(c, "shutdown", how)

\* the first waiter, woken when the lock was released, takes the lock
LockAcquired(c, how) ==
    /\ rpc[c] = "waiting"
    /\ ~locked
    /\ lockWaiters # <<>> /\ c = Head(lockWaiters)
    /\ lockWaiters' = Tail(lockWaiters)
    /\ UNCHANGED rop
    /\ LockedBlock(c, how)

\* a call waiting for the lock is cancelled
WaitCancelled(c) ==
    /\ rpc[c] = "waiting"
    /\ lockWaiters' = SelectSeq(lockWaiters, LAMBDA w : w # c)
    /\ rpc' = [rpc EXCEPT ![c] = "raised"]
    /\ UNCHANGED <<isInitialized, lockOwner, rop, hookLog>>

\* `await result` returns: the flag is set and the lock released
HookReturns(c) ==
    /\ rpc[c] = "hook"
    /\ UNCHANGED <<lockWaiters, rop>>
    /\ isInitialized' = (rop[c] = "initialize")
    /\ lockOwner' = 0
    /\ rpc' = [rpc EXCEPT ![c] = "returned"]
    /\ hookLog' = Append(hookLog, HookEvent(c, "end"))

\* `await result` raises (the hook failed, or the call was cancelled)
HookRaises(c) ==
    /\ rpc[c] = "hook"
    /\ UNCHANGED <<isInitialized, lockWaiters, rop>>
    /\ lockOwner' = 0
    /\ rpc' = [rpc EXCEPT ![c] = "raised"]
    /\ hookLog' = Append(hookLog, HookEvent(c, "raise"))

RNext ==
    \/ \E c \in Lifecyclers, how \in {"value", "awaitable", "raise"} :
          initialize(c, how) /\ UNCHANGED <<qvars, tvars, lvars, xvars, titer>>
    \/ \E c \in Lifecyclers, how \in {"value", "awaitable", "raise"} :
          shutdown(c, how) /\ UNCHANGED <<qvars, tvars, lvars, xvars, titer>>
    \/ \E c \in Lifecyclers, how \in {"value", "awaitable", "raise"} :
          LockAcquired(c, how) /\ UNCHANGED <<qvars, tvars, lvars, xvars, titer>>
    \/ \E c \in Lifecyclers : WaitCancelled(c) /\ UNCHANGED <<qvars, tvars, lvars, xvars, titer>>
    \/ \E c \in Lifecyclers : HookReturns(c) /\ UNCHANGED <<qvars, tvars, lvars, xvars, titer>>
    \/ \E c \in Lifecyclers : HookRaises(c) /\ UNCHANGED <<qvars, tvars, lvars, xvars, titer>>

\* the queue used from coroutines of its own loop
InitQueue == QInit /\ TIdle /\ LIdle /\ XIdle /\ RInit

SpecQueue == InitQueue /\ [][QNext]_vars

QThreadNext ==
    \/ QNext
    \/ \E text \in Texts : SubmitThreadsafe(text) /\ UNCHANGED <<tvars, lvars, xvars, titer, rvars>>
    \/ \E c \in Calls : SubmitTask(c) /\ UNCHANGED <<tvars, lvars, xvars, titer, rvars>>
    \/ \E c \in Calls : SubmitTaskDone(c) /\ UNCHANGED <<tvars, lvars, xvars, titer, rvars>>

\* the queue used from its own loop and from foreign threads
SpecQueueThreads == InitQueue /\ [][QThreadNext]_vars

\* the queue, used from its own loop and from foreign threads, while nobody
\* stops the worker
QLiveNext ==
    \/ Start /\ UNCHANGED <<tvars, lvars, xvars, titer, rvars>>
    \/ \E text \in Texts : Submit(text) /\ UNCHANGED <<tvars, lvars, xvars, titer, rvars>>
    \/ \E c \in Calls : CancelWait(c) /\ UNCHANGED <<tvars, lvars, xvars, titer, rvars>>
    \/ \E t \in Tasks : WorkerGet(t) /\ UNCHANGED <<tvars, lvars, xvars, titer, rvars>>
    \/ \E t \in Tasks, kind \in {"result", "error"} : WorkerFinish(t, kind) /\ UNCHANGED <<tvars, lvars, xvars, titer, rvars>>
    \/ \E text \in Texts : SubmitThreadsafe(text) /\ UNCHANGED <<tvars, lvars, xvars, titer, rvars>>
    \/ \E c \in Calls : SubmitTask(c) /\ UNCHANGED <<tvars, lvars, xvars, titer, rvars>>
    \/ \E c \in Calls : SubmitTaskDone(c) /\ UNCHANGED <<tvars, lvars, xvars, titer, rvars>>

\* the event loop runs a task that can run (a worker whose queue.get has a
\* request, a scheduled _submit, a _submit whose future is completed), and
\* every invocation returns or raises
QFairness ==
    /\ \A t \in Tasks :
          /\ WF_vars(WorkerGet(t) /\ UNCHANGED <<tvars, lvars, xvars, titer, rvars>>)
          /\ WF_vars(\E kind \in {"result", "error"} : WorkerFinish(t, kind) /\ UNCHANGED <<tvars, lvars, xvars, titer, rvars>>)
    /\ \A c \in Calls :
          /\ WF_vars(SubmitTask(c) /\ UNCHANGED <<tvars, lvars, xvars, titer, rvars>>)
          /\ WF_vars(SubmitTaskDone(c) /\ UNCHANGED <<tvars, lvars, xvars, titer, rvars>>)

SpecQueueLive == InitQueue /\ [][QLiveNext]_vars /\ QFairness

\* the variables of the agent loop other than the histories
lrest == <<maxIter, frame, outcome, inferCalls, toolExecs, caught, ctxTrace,
           nextTrace, emitted>>

\* a message of the orchestrator's history, with the request whose
\* invocation appended it
OwnMsg(role, kind, r) == [role |-> role, kind |-> kind, req |-> r]

\* ReActAgent.invoke of the orchestrator for request r, begun by worker task
\* t, up to its first await: the history is cleared and the query is appended
InvokeFor(t, r) ==
    /\ history' = [history EXCEPT ![RootAgent] = <<OwnMsg("user", "query", r)>>]
    /\ titer' = [titer EXCEPT ![t] = 0]

\* the invocation for the request of worker task t resumes after the
\* inference call of an iteration (`for iteration in range(max_iters)`) and
\* runs to the next one: a reply with action tool (here with calls that
\* suspend nowhere: none valid, or of unknown tools) has its assistant message
\* and the "Result:" message appended; an inference call that raised has the
\* "Error:" message appended
IterateFor(t, kind) ==
    /\ tstate[t] = "invoking"
    /\ LoopContinues(titer[t], maxIter[RootAgent])
    /\ titer' = [titer EXCEPT ![t] = @ + 1]
    /\ history' = [history EXCEPT ![RootAgent] =
                      IF kind = "raise"
                      THEN Append(@, OwnMsg("user", "error", treq[t]))
                      ELSE Append(Append(@, OwnMsg("assistant", "action", treq[t])),
                                  OwnMsg("user", "result", treq[t]))]
    /\ UNCHANGED <<qvars, tvars, lrest, xvars, rvars>>

\* the queue with the history of the orchestrator its workers invoke: a
\* worker that takes a request (at queue.get, or straight after finishing the
\* request before) begins the invocation
QAgentNext ==
    \/ Start /\ UNCHANGED <<tvars, lvars, xvars, titer, rvars>>
    \/ \E text \in Texts : Submit(text) /\ UNCHANGED <<tvars, lvars, xvars, titer, rvars>>
    \/ \E c \in Calls : CancelWait(c) /\ UNCHANGED <<tvars, lvars, xvars, titer, rvars>>
    \/ StopBegin /\ UNCHANGED <<tvars, lvars, xvars, titer, rvars>>
    \/ \E t \in Tasks, last \in BOOLEAN : StopEnd(t, last) /\ UNCHANGED <<tvars, lvars, xvars, titer, rvars>>
    \/ \E t \in Tasks : WorkerGet(t) /\ InvokeFor(t, treq'[t]) /\ UNCHANGED <<tvars, lrest, xvars, rvars>>
    \/ \E t \in Tasks, kind \in {"result", "error"} :
          /\ WorkerFinish(t, kind)
          /\ IF tstate'[t] = "invoking" THEN InvokeFor(t, treq'[t])
             ELSE UNCHANGED <<history, titer>>
          /\ UNCHANGED <<tvars, lrest, xvars, rvars>>
    \/ \E t \in Tasks : WorkerCancelled(t) /\ UNCHANGED <<tvars, lvars, xvars, titer, rvars>>
    \/ \E t \in Tasks, kind \in {"tool", "raise"} : IterateFor(t, kind)

SpecQueueAgent == InitQueue /\ [][QAgentNext]_vars

\* the tracer used by concurrent threads
InitTracer == QInit /\ TInit /\ LIdle /\ XIdle /\ RInit

SpecTracer == InitTracer /\ [][TNext]_vars

InitLoop == QInit /\ TIdle /\ LInit /\ XIdle /\ RInit

\* an agent is constructed from its declared tools and then used
InitTools == QInit /\ TIdle /\ LIdle /\ MInit /\ SIdle /\ CIdle /\ FIdle /\ RInit

SpecTools == InitTools /\ [][MNext]_vars

\* trace scopes are entered and left, one inside the other
InitScope == QInit /\ TInit /\ LIdle /\ XIdle /\ RInit

SpecScope == InitScope /\ [][SNext]_vars

\* call chains enter and leave trace scopes concurrently
SpecChains == InitScope /\ [][CNext]_vars

\* a function is called on its own, on any of its inputs
InitCalls ==
    LET
        \* the inputs of from_raw.  On ReActResponse: an instance; a mapping, with
        \* its action and whether its other values have the types of the schema; a
        \* text, by what _extract_json_object and json.loads find in it (no balanced
        \* object, an object that is not JSON, JSON with no key of the schema, JSON
        \* with keys of the schema) and by what its `key: value` lines hold: the
        \* action (absent, a literal, a tool name, a call expression, an empty value,
        \* a bracket list), whether a response is written, and the other fields
        \* (none, well typed, a list field written as plain text: fixable, a text
        \* field written as a bracket list: bad).  On ReActResponse, on a schema
        \* with a response field and defaults for all fields (Plain) and on one with
        \* a required field besides (Strict): the free texts, which have no line and
        \* no JSON key of the schema; a text with braces has a character that is
        \* neither blank nor quote
        ParserInputs ==
            LET JsonNoFields == [found : {"none", "bad", "nofields"}, action : {"absent"}, ok : {TRUE}]
                JsonFields == [found : {"fields"}, action : {"absent", "tool", "answer", "name"},
                               ok : BOOLEAN]
                Toons == [action : {"absent", "tool", "answer", "name", "call", "empty", "list"},
                          response : BOOLEAN, others : {"none", "ok", "fixable", "bad"}]
            IN [fn : {"from_raw"}, cls : {"ReAct"},
                raw : [kind : {"instance"}, action : {"tool", "answer"}]
                      \cup [kind : {"mapping"}, action : {"absent", "tool", "answer", "name"},
                            ok : BOOLEAN]
                      \cup [kind : {"string"}, json : JsonNoFields \cup JsonFields, toon : Toons,
                            text : {<<"a">>}]]
               \cup [fn : {"from_raw"}, cls : {"ReAct", "Plain", "Strict"},
                     raw : {r \in [kind : {"string"}, json : JsonNoFields, toon : {NoToon},
                                   text : Strings] :
                               r.json.found # "none" => \E i \in 1..Len(r.text) : r.text[i] = "a"}]
        \* the inputs of _truncate: None or a text (of dots and other characters),
        \* and a cap, int(OBSERVABILITY_MAX_DETAIL) being any integer; the inputs of
        \* _sanitize: the values that are no container; lists and mappings (no key
        \* twice) of at most MaxItems items (None, numbers, texts of every length);
        \* and such a list or mapping inside a list or a mapping
        CapInputs ==
            LET Texts2 == UNION {[1..k -> {"a", "."}] : k \in 0..MaxText}
                Plain == {[k |-> "none"], [k |-> "num"]}
                Leaves == Plain \cup {Str(t) : t \in Texts2} \cup {[k |-> "obj", dump |-> t] : t \in Texts2}
                Items == Plain \cup {Str(t) : t \in {u \in Texts2 : \A i \in 1..Len(u) : u[i] = "a"}}
                Keys == [t : {"int", "str"}, s : {"1"}] \cup {[t |-> "str", s |-> "k"]}
                SeqsOf(S) == UNION {[1..k -> S] : k \in 0..MaxItems}
                Dicts == {d \in SeqsOf([key : Keys, v : Items]) :
                             \A i, j \in 1..Len(d) : i # j => d[i].key # d[j].key}
                Containers == {[k |-> "list", items |-> q] : q \in SeqsOf(Items)}
                              \cup {[k |-> "dict", items |-> d] : d \in Dicts}
            IN [fn : {"truncate"}, value : {[k |-> "none"]} \cup {Str(t) : t \in Texts2},
                cap : -1..MaxCap]
               \cup [fn : {"sanitize"},
                     value : Leaves \cup Containers
                             \cup {[k |-> "list", items |-> <<c>>] : c \in Containers}
                             \cup {[k |-> "dict", items |-> <<[key |-> key, v |-> c]>>] :
                                      key \in Keys, c \in Containers},
                     cap : -1..MaxCap]
        \* the inputs of invoke as a function of what it is given: the setting of
        \* the tracer (observability enabled, OBSERVABILITY_MAX_DETAIL a number), the
        \* query (an empty or another string), and for every iteration the model
        \* reply and whether the tools it calls return or raise
        InvokeInputs ==
            LET Steps == [reply : {r \in Replies : ~r.thinking /\ r.plan = <<>>}, ok : BOOLEAN]
            IN [fn : {"invoke"}, enabled : BOOLEAN, detailOk : BOOLEAN, query : {"none", "str"},
                script : UNION {[1..k -> Steps] : k \in 0..MaxIterations}]
        \* the inputs of read_recent_events: the file at OBSERVABILITY_LOG_PATH is
        \* missing, cannot be read, or has lines, each an event as log_event wrote
        \* it, text that is not JSON, or a blank line (an event is known by the
        \* number of its line); and the limit
        ReadInputs ==
            LET LogFiles == UNION {[1..k -> {"event", "garbage", "blank"}] : k \in 0..MaxLines}
            IN [fn : {"read_recent_events"}, file : {"ok", "unreadable"}, lines : LogFiles,
                limit : -1..MaxLimit]
               \cup [fn : {"read_recent_events"}, file : {"missing"}, lines : {<<>>},
                     limit : -1..MaxLimit]
        \* the values of the schema ReActResponse that are written and parsed
        \* again, by their action and the characters of their response (a
        \* validated instance can hold any text: the validator leaves `x` when
        \* given `x` in quotes), and the format they are written in
        RoundTripInputs ==
            [fn : {"round_trip"}, fmt : {"toon", "json"},
             value : [action : {"tool", "answer"}, response : Strings]]
        \* the response texts of a tool iteration, as at most MaxLines pieces in
        \* textual order: prose, or a match of the pattern name({...}) whose
        \* braces hold a JSON object, text that is not JSON, or a JSON object
        \* nested deeper than the decoder's recursion allows
        ResponseTexts ==
            [fn : {"parse_tool_calls"},
             pieces : UNION {[1..k -> {"prose", "call", "call not json", "call too deep"}] :
                                k \in 0..MaxLines}]
    IN /\ QInit /\ TIdle /\ LIdle /\ MIdle /\ SIdle /\ CIdle /\ RInit
       /\ arg \in ParserInputs \cup CapInputs \cup InvokeInputs \cup ReadInputs
                  \cup RoundTripInputs \cup ResponseTexts
       /\ ret = NoRet

SpecCalls == InitCalls /\ [][FNext]_vars

\* traces are logged, one scope inside the other, and the log is summarised
InitSummaries ==
    /\ QInit /\ TIdle /\ LIdle /\ MIdle /\ SIdle /\ CIdle /\ RInit
    /\ arg = [log |-> <<>>]
    /\ ret = NoRet

SpecSummaries == InitSummaries /\ [][UNext]_vars

\* initialize() and shutdown() calls on one RuntimeObject
InitLifecycle == QInit /\ TIdle /\ LIdle /\ XIdle /\ RInit

SpecLifecycle == InitLifecycle /\ [][RNext]_vars

\* one call chain: the application invokes the orchestrator
SpecLoop == InitLoop /\ [][LNext]_vars

\* ------------------------------------------------------ claims: the queue
LiveWorkers == {t \in Tasks : tstate[t] \in {"waiting", "invoking"}}
InFlight == {t \in Tasks : tstate[t] = "invoking"}

\* C1: requests are dequeued, processed and resolved strictly in the order in
\* which they were enqueued, and each handle holds the outcome of its own
\* request.
C1_FifoOwnResult ==
    /\ \E k \in 0..Len(enqueued) : queue = SubSeq(enqueued, k + 1, Len(enqueued))
    /\ \A i, j \in 1..Len(resolutions) :
          i < j => Pos(enqueued, resolutions[i].req) < Pos(enqueued, resolutions[j].req)
    /\ \A c \in Calls : fut[c].state \in {"result", "error"} => fut[c].val = c

\* C2: a handle is resolved at most once, with a result or an error and never
\* both; a completed handle is never changed again by the worker; a resolved
\* request is neither in the queue nor held by a worker again.
C2_ResolvedOnce ==
    /\ [](\A c \in Calls :
            /\ Cardinality({i \in 1..Len(resolutions) : resolutions[i].req = c}) <= 1
            /\ fut[c].state \in {"result", "error"} =>
                  /\ c \notin Range(queue)
                  /\ \A t \in Tasks : treq[t] # c)
    /\ [][\A c \in Calls : fut[c].state \in DoneStates => fut'[c] = fut[c]]_vars

\* a worker has gone through a request whose handle the caller had cancelled,
\* and resolved a later one
C2_Witness ==
    \E c, d \in Calls :
        /\ fut[c].state = "cancelled"
        /\ fut[d].state = "result"
        /\ Pos(enqueued, c) < Pos(enqueued, d)

\* C3: at most one worker task consumes the queue, so at most one invocation
\* issued by the queue is in flight.
C3_SingleWorker ==
    /\ Cardinality(LiveWorkers) <= 1
    /\ Cardinality(InFlight) <= 1

\* C4: when a worker ends an invocation (in particular one that raised), only
\* the handle of that request changes, an error it stores is the error of that
\* request, the worker stays alive and goes on to the next queued request.
C4_FailureIsolated ==
    [][\A t \in Tasks :
          (tstate[t] = "invoking" /\ ~tcancel[t] /\ treq'[t] # treq[t]) =>
              /\ tstate'[t] \in {"waiting", "invoking"}
              /\ \A c \in Calls : c # treq[t] => fut'[c] = fut[c]
              /\ (fut[treq[t]].state = "pending" /\ fut'[treq[t]].state = "error")
                     => fut'[treq[t]].val = treq[t]
              /\ queue # <<>> =>
                     /\ tstate'[t] = "invoking"
                     /\ treq'[t] = Head(queue)
                     /\ queue' = Tail(queue)]_vars

\* an invocation raised, its request's handle holds the error, and the same
\* worker then resolved the next request with its result
C4_Witness ==
    /\ Len(resolutions) = 2
    /\ resolutions[1].kind = "error"
    /\ resolutions[2].kind = "result"
    /\ resolutions[1].by = resolutions[2].by
    /\ fut[resolutions[1].req].state = "error"
    /\ fut[resolutions[2].req].state = "result"

\* ----------------------------------------------------- claims: the tracer
\* C8: sequence numbers are allocated atomically: they are strictly increasing
\* in allocation order without a gap, no two events (logged or returned) share
\* one, and once each of the M producers has got its N events, the events hold
\* exactly the values 1..N*M.
C8_SeqAtomic ==
    /\ \A i \in 1..Len(allocs) : allocs[i] = i
    /\ \A i, j \in 1..Len(allocs) : i < j => allocs[i] < allocs[j]
    /\ \A i, j \in 1..Len(log) : i # j => log[i] # log[j]
    /\ \A p, q \in Producers : p # q => pgot[p] \cap pgot[q] = {}
    /\ (\A p \in Producers : Cardinality(pgot[p]) = EventsPerProducer) =>
           UNION {pgot[p] : p \in Producers} = 1..(EventsPerProducer * Cardinality(Producers))

\* every producer has got all its events, and the producers ran interleaved:
\* an event with a larger seq was written before one with a smaller seq
C8_Witness ==
    /\ \A p \in Producers : Cardinality(pgot[p]) = EventsPerProducer
    /\ \E i, j \in 1..Len(log) : i < j /\ log[i] > log[j]

\* C10: log_event never raises into its caller: a failing write and a raising
\* subscriber are swallowed, the event reaches every subscriber of the call
\* that did not raise, and the event is returned.
C10_LogEventSwallows ==
    \A p \in Producers :
        /\ pret[p] # "raised"
        /\ pret[p] = "event" =>
              /\ pev[p] \in pgot[p]
              /\ \A s \in Range(pall[p]) : s \notin pfailed[p] => pev[p] \in delivered[s]


\* ------------------------------------------------- claims: the agent loop
HasAnswer(h) == \E i \in 1..Len(h) : h[i] = Msg("assistant", "answer")
Count(h, m) == Cardinality({i \in 1..Len(h) : h[i] = m})

\* the agent's latest invocation entered its loop and has returned
Ended(a) == frame[a].pc = "idle" /\ outcome[a].state \in {"answer", "exhausted"}

C7_ExceptionContained ==
    \A a \in Agents :
        /\ outcome[a].state \in {"none", "answer", "exhausted"}
        /\ Count(history[a], Msg("user", "error")) = caught[a]
        /\ caught[a] <= frame[a].iter
        /\ caught[a] > 0 => Event("error", a, frame[a].trace) \in emitted

\* C9: every event of the call chain carries the trace id of the root
\* invocation; trace_start and trace_end come from the root invocation only,
\* agent_start and agent_end from the nested one only; an invocation that has
\* returned has logged both events of its level.
C9_TraceCorrelation ==
    /\ \A e \in emitted :
          /\ e.trace # 0
          /\ e.trace = frame[RootAgent].trace
          /\ e.type \in {"trace_start", "trace_end"} => e.agent = RootAgent
          /\ e.type \in {"agent_start", "agent_end"} => e.agent # RootAgent
    /\ \A a \in Agents :
          Ended(a) =>
              /\ frame[a].trace = frame[RootAgent].trace
              /\ frame[a].root = (a = RootAgent)
              /\ Event(IF a = RootAgent THEN "trace_start" ELSE "agent_start", a,
                       frame[a].trace) \in emitted
              /\ Event(IF a = RootAgent THEN "trace_end" ELSE "agent_end", a,
                       frame[a].trace) \in emitted

\* the root invocation called the nested agent, both have returned, and the
\* context variable is None again
C9_Witness ==
    /\ Ended("sub")
    /\ Ended(RootAgent)
    /\ Cardinality({e \in emitted : e.agent = "sub"}) >= 4
    /\ Event("tool_end", RootAgent, frame[RootAgent].trace) \in emitted
    /\ ctxTrace = 0


\* ---------------------------------------------- claims: the queue, part 2
\* C11: while the worker is not stopped and every invocation returns or
\* raises, every request accepted by submit eventually has its handle resolved
\* with a result or an error.
C11_EventuallyResolved ==
    \A c \in Calls : (cstate[c] = "queued") ~> (fut[c].state \in {"result", "error"})

\* C11 as amended: ... eventually has its handle completed: resolved with a
\* result or an error by the worker, or cancelled because the caller's wait
\* was cancelled; the worker still takes every accepted request out of the
\* queue.
C11_EventuallyCompleted ==
    \A c \in Calls :
        /\ (cstate[c] = "queued") ~> (fut[c].state \in DoneStates)
        /\ (cstate[c] = "queued") ~> (c \notin Range(queue) /\ \A t \in Tasks : treq[t] # c)

\* every call was accepted and gone through: one handle holds an error, one
\* was cancelled by its caller, and the worker waits for more
C11_Witness ==
    /\ nextCall > MaxCalls
    /\ queue = <<>>
    /\ \E c, d \in Calls : fut[c].state = "error" /\ fut[d].state = "cancelled"
    /\ \A c \in Calls : fut[c].state \in DoneStates
    /\ \E t \in Tasks : tstate[t] = "waiting"

\* C12: whenever submit accepts a request while no worker is running (none
\* referenced, or the referenced task is done), a live worker is referenced
\* once the request is in the queue
C12_SubmitStartsWorker ==
    [][(/\ nextCall' = nextCall + 1
        /\ cstate'[nextCall] = "queued"
        /\ workerTask = 0 \/ TaskDone(workerTask))
       => (workerTask' # 0 /\ tstate'[workerTask'] \in {"waiting", "invoking"})]_vars

\* C13: a submit_threadsafe call from a foreign thread returns a handle, and
\* the handle is eventually completed with the outcome of its own request:
\* the result, or the error of a failed or rejected request
C13_ThreadsafeCompleted ==
    /\ [](raised # "RuntimeError")
    /\ \A c \in Calls :
          (cfut[c] = "pending") ~> (cfut[c] \in {"result", "error"})
    /\ [](\A c \in Calls :
            /\ cfut[c] = "result" => fut[c] = [state |-> "result", val |-> c]
            /\ cfut[c] = "error" => (ctext[c] = "" \/ fut[c].state = "error"))

\* C14: submit with an empty text raises and changes nothing: no request is
\* enqueued, no handle is created, no worker is started and no invocation
\* begins
C14_EmptyRejected ==
    [][Submit("") =>
          /\ raised' = "ValueError"
          /\ UNCHANGED <<queue, enqueued, fut, nextCall, cstate, cfut,
                         workerTask, tstate, treq, resolutions, lvars, xvars>>]_vars
C14_Witness ==
    /\ raised = "ValueError"
    /\ workerTask = 0
    /\ queue = <<>>
    /\ \A c \in Calls : fut[c] = NoFuture

\* ------------------------------------------ claims: the agent loop, part 2
\* C15: at every point during invoke(q) the history holds only messages of
\* that invocation, the first being the user message q
C15_HistoryOwn ==
    \A t \in Tasks :
        tstate[t] = "invoking" =>
            LET h == history[RootAgent] IN
            /\ h # <<>>
            /\ h[1] = OwnMsg("user", "query", treq[t])
            /\ \A i \in 1..Len(h) : h[i].req = treq[t]

\* C16: a call whose name is not in the tools map executes nothing and logs
\* no tool event, gives the "Tool not found" observation, leaves the other
\* calls of the response to be processed, and the invocation goes on: after
\* the last call the observations go to the history and the next iteration
\* follows
C16_UnknownTool ==
    [][\A a \in Agents :
          (/\ frame[a].pc = "tools"
           /\ Head(frame[a].calls).name \notin ToolsMap(a)
           /\ frame'[a] # frame[a])
          => /\ toolExecs' = toolExecs
             /\ emitted' = emitted
             /\ outcome' = outcome
             /\ caught' = caught
             /\ frame'[a].calls = Tail(frame[a].calls)
             /\ IF Tail(frame[a].calls) # <<>>
                THEN /\ frame'[a].pc = "tools"
                     /\ frame'[a].obs = Append(frame[a].obs,
                                               Obs(Head(frame[a].calls).name, "notfound"))
                     /\ frame'[a].iter = frame[a].iter
                     /\ history'[a] = history[a]
                ELSE /\ frame'[a].pc = "loop"
                     /\ frame'[a].iter = frame[a].iter + 1
                     /\ history'[a] = Append(history[a], Msg("user", "result"))]_vars
C16_Witness ==
    \E a \in Agents :
        /\ frame[a].pc = "tools"
        /\ frame[a].obs = <<Obs("nope", "notfound")>>
        /\ frame[a].calls = <<Call("fn", "str")>>
        /\ toolExecs[a] = 0

\* the call at the head of a's tool branch names a capability that raises: a
\* function that fails, or a nested agent whose invoke raises
RaisingCall(a, ok) ==
    LET c == Head(frame[a].calls) IN
    /\ frame[a].pc = "tools"
    /\ c.name \in ToolsMap(a)
    /\ IF c.name \in AgentTools THEN c.q = "num" ELSE ~ok

C18_OtherActionError ==
    [][\A a \in Agents :
          (/\ frame[a].pc = "infer"
           /\ Len(history'[a]) > Len(history[a])
           /\ history'[a][Len(history[a]) + 1] = Msg("assistant", "other"))
          => /\ history'[a][Len(history'[a])] = Msg("user", "error")
             /\ frame'[a].pc = "loop"
             /\ frame'[a].iter = frame[a].iter + 1
             /\ outcome'[a] = outcome[a]]_vars

\* C19: the tools map is built at construction and not changed afterwards,
\* and each name resolves to the first tool of the declared list that is
\* registered under it
C19_BuiltOnceFirstWins ==
    /\ [](apc = "ready" =>
            \A n \in ToolNames :
                LET I == {i \in 1..Len(tools) :
                             tools[i].name = n /\ tools[i].kind \in {"agent", "function"}}
                IN toolsMap[n] = IF I = {} THEN 0 ELSE CHOOSE i \in I : \A j \in I : i <= j)
    /\ [][apc = "ready" => toolsMap' = toolsMap]_vars

\* ---------------------------------------------- claims: the tracer, part 2
\* C20: when a trace_scope is left, by return or by exception, the ambient
\* trace id is what it was when the scope was entered
C20_ScopeRestores ==
    [][/\ Len(scopes') < Len(scopes) => ctxTrace' = Head(scopes).entry
       /\ Len(scopes') = Len(scopes) => ctxTrace' = ctxTrace]_vars

\* C21: two invocations that are not nested in one another (of different
\* call chains, or one after the other in a chain) have distinct trace ids,
\* and the events of an invocation carry no id but its own
C21_ChainsDistinct ==
    \A x, y \in chainTraces :
        (x.chain # y.chain \/ x.inv # y.inv) => x.trace # y.trace

\* ------------------------------------------- claims: the agent loop, part 2
\* C27: while a nested agent runs as a tool, the history, the iteration count
\* and the inference calls of the parent do not change: the nested agent
\* works on its own history and budget; when it has returned, the parent's
\* history grows by nothing, or, after the last call of the iteration, by the
\* one message with the observations
C27_NestedIsolated ==
    [][\A a \in Agents :
          frame[a].pc = "nested" =>
              /\ inferCalls'[a] = inferCalls[a]
              /\ maxIter'[a] = maxIter[a]
              /\ \/ /\ frame'[a].pc = "nested"
                    /\ history'[a] = history[a]
                    /\ frame'[a].iter = frame[a].iter
                 \/ /\ frame'[a].pc = "tools"
                    /\ history'[a] = history[a]
                    /\ frame'[a].iter = frame[a].iter
                 \/ /\ frame'[a].pc = "loop"
                    /\ history'[a] = Append(history[a], Msg("user", "result"))
                    /\ frame'[a].iter = frame[a].iter + 1]_vars
C27_Witness ==
    /\ frame["orch"].pc = "loop"
    /\ frame["orch"].iter = 1
    /\ history["orch"] = <<Msg("user", "query"), Msg("assistant", "tool"), Msg("user", "result")>>
    /\ outcome["sub"].state = "answer"
    /\ outcome["sub"].iter = 2
    /\ Len(history["sub"]) >= 4

\* ------------------------------------ claims: functions called on their own
\* the call that was made, if any
Called(fn) == ret # NoRet /\ arg.fn = fn

\* C22: from_raw never raises, whatever the input: an instance, a mapping
\* (also one whose values violate the schema) or a text
C22_FromRawNeverRaises ==
    Called("from_raw") => ret.raised = "none"

\* C23: what from_raw returns for a text has action tool or answer, whichever
\* of the paths (JSON, lines, fallback) produced it
C23_ActionLiteral ==
    (Called("from_raw") /\ arg.cls = "ReAct" /\ arg.raw.kind = "string") =>
        (ret.raised = "none" /\ ret.action \in {"tool", "answer"})
C23_Witness ==
    /\ Called("from_raw")
    /\ arg.raw.kind = "string"
    /\ arg.raw.json.found = "fields"
    /\ arg.raw.json.action = "name"
    /\ arg.raw.toon.action = "name"
    /\ ret.via = "toon"
    /\ ret.action = "tool"

\* C24: for a text with lines in which an action is written whose value is
\* neither tool nor answer, the parsed action is tool
C24_ActionCoerced ==
    (/\ Called("from_raw")
     /\ arg.raw.kind = "string"
     /\ arg.raw.toon.action \in {"name", "call", "empty", "list"})
    => (ret.raised = "none" /\ ret.action = "tool")

\* a free text was parsed: no line and no JSON key of the schema
FreeTextParsed ==
    /\ Called("from_raw")
    /\ arg.raw.kind = "string"
    /\ arg.raw.json.found # "fields"
    /\ arg.raw.toon = NoToon

\* C25 as stated: for a free text, against a schema with a response field,
\* from_raw returns a result whose response is the trimmed input
C25_ResponseTrimmed ==
    FreeTextParsed =>
        /\ ret.raised = "none"
        /\ ret.response = [src |-> "raw", text |-> strip(arg.raw.text)]

\* C25: for a free text, against a schema with a response field, from_raw
\* returns a result whose response is the trimmed input, except that
\* ReActResponse drops the first and the last character of a trimmed input of
\* two or more characters that begins and ends with the same quote character
C25_ResponseTrimmedUnquoted ==
    FreeTextParsed =>
        LET t == strip(arg.raw.text)
            quoted == /\ arg.cls = "ReAct"
                      /\ Len(t) >= 2
                      /\ t[1] \in {"'", "\""}
                      /\ t[Len(t)] = t[1]
        IN /\ ret.raised = "none"
           /\ ret.response.src = "raw"
           /\ ret.response.text = IF quoted THEN SubSeq(t, 2, Len(t) - 1) ELSE t
C25_Witness ==
    /\ FreeTextParsed
    /\ arg.cls = "ReAct"
    /\ arg.raw.text = <<"\"", "a", "\"">>
    /\ ret.via = "fallback"
    /\ ret.response.text = <<"a">>

\* C26: size capping is idempotent: capping a capped text, and capping a
\* capped nested value of meta, with the same cap gives what the first
\* capping gave
C26_CappingIdempotent ==
    ((Called("truncate") \/ Called("sanitize")) /\ Times = 2) => ret.value = ret.first
C26_Witness ==
    /\ Called("sanitize")
    /\ Times = 2
    /\ arg.value.k = "dict"
    /\ arg.cap = 4
    /\ ret.value = [k |-> "dict",
                    items |-> <<[key |-> [t |-> "str", s |-> "1"],
                                 v |-> [k |-> "list",
                                        items |-> <<Str(<<"a", ".", ".", ".">>)>>]]>>]

\* C28: the tracer takes no part in the control of the loop: for the same
\* query, replies and tool results, invoke makes the same inference calls,
\* executes the same tools, builds the same history and returns the same
\* result under every setting of the tracer
C28_TracerNoControl ==
    Called("invoke") =>
        \A enabled, detailOk \in BOOLEAN :
            LET Control(r) == <<r.raised, r.result, r.inferCalls, r.toolExecs, r.history>>
            IN Control(invoke(enabled, detailOk, arg.query, arg.script)) = Control(ret)

\* C29 as stated: read_recent_events(limit) returns the limit most recently
\* appended events of the log (fewer when the log is shorter), the most
\* recent first; taken for a positive limit and a file that can be read and
\* holds nothing but events and blank lines
C29_RecentFirst ==
    (/\ Called("read_recent_events")
     /\ arg.file # "unreadable"
     /\ arg.limit >= 1
     /\ \A i \in 1..Len(arg.lines) : arg.lines[i] # "garbage")
    => LET I == {i \in 1..Len(arg.lines) : arg.lines[i] = "event"}
           n == IF Cardinality(I) < arg.limit THEN Cardinality(I) ELSE arg.limit
       IN /\ Len(ret.events) = n
          /\ \A m \in 1..n :
                 /\ ret.events[m] \in I
                 /\ Cardinality({j \in I : j >= ret.events[m]}) = m

\* C29: read_recent_events(limit) returns, when the file can be read, the
\* events on the last max(1, limit) non-blank lines of the log (on all of
\* them when the log is shorter), in the order in which they were appended;
\* and nothing when the file cannot be read
C29_RecentInOrder ==
    Called("read_recent_events") =>
        LET N == {i \in 1..Len(arg.lines) : arg.lines[i] # "blank"}
            K == {i \in N : Cardinality({j \in N : j >= i}) <= Max(1, arg.limit)}
            E == IF arg.file = "unreadable" THEN {}
                 ELSE {i \in K : arg.lines[i] = "event"}
        IN /\ Len(ret.events) = Cardinality(E)
           /\ \A m \in 1..Len(ret.events) :
                  /\ ret.events[m] \in E
                  /\ Cardinality({j \in E : j <= ret.events[m]}) = m
C29_Witness ==
    /\ Called("read_recent_events")
    /\ arg.file = "ok"
    /\ arg.lines = <<"event", "garbage", "event", "event">>
    /\ arg.limit = 2
    /\ ret.events = <<3, 4>>

\* --------------------------------------------- claims: the trace summaries
\* C30: list_traces reports as the duration of a trace the duration of the
\* last lifecycle event (trace_end or agent_end) of the trace in seq order:
\* for a root invocation with nested agents, that of the root's trace_end;
\* and the scan leaves the log as it is
C30_LastLifecycleDuration ==
    ret # NoRet =>
        \A n \in 1..Len(ret.traces) :
            LET ends == {i \in 1..Len(ret.scanned) :
                            /\ ret.scanned[i].trace_id = ret.traces[n].trace_id
                            /\ IsLifecycleEnd(ret.scanned[i])}
            IN ends # {} =>
                   \E i \in ends :
                       /\ \A j \in ends : ret.scanned[j].seq <= ret.scanned[i].seq
                       /\ ret.traces[n].duration_ms = ret.scanned[i].duration_ms

\* the positions of the terminal events (answer, max_iterations) among the
\* events of the invocation that was called
TerminalAt == {i \in 1..Len(ret.events) : ret.events[i] \in {"answer", "max_iterations"}}

\* C31 as stated: every invoke that returns logs exactly one terminal event,
\* answer when it ends by an answer and max_iterations when it ends by
\* exhaustion, before it returns and before its trace_end
C31_OneTerminalEvent ==
    Called("invoke") /\ ret.raised = "none" =>
        \E i \in 1..Len(ret.events) :
            /\ TerminalAt = {i}
            /\ ret.events[i] = IF ret.result = "answer" THEN "answer" ELSE "max_iterations"
            /\ \E j \in i + 1..Len(ret.events) : ret.events[j] = "trace_end"

\* C31 amended: with observability enabled every invoke that returns logs
\* exactly one terminal event, answer when it ends by an answer and
\* max_iterations when it ends by exhaustion; it is logged after every other
\* event of the loop and before the one trace_end, which is the last event.
\* With observability disabled an invoke logs no event at all
C31_OneTerminalEventEnabled ==
    Called("invoke") /\ ret.raised = "none" =>
        IF arg.enabled
        THEN LET n == Len(ret.events)
             IN /\ n >= 3
                /\ TerminalAt = {n - 1}
                /\ ret.events[n - 1]
                       = (IF ret.result = "answer" THEN "answer" ELSE "max_iterations")
                /\ {j \in 1..n : ret.events[j] = "trace_end"} = {n}
        ELSE ret.events = <<>>

\* an enabled invocation ran a tool in its first iteration and answered in
\* its second
C31_Witness ==
    /\ Called("invoke")
    /\ arg.enabled
    /\ ret.raised = "none"
    /\ ret.result = "answer"
    /\ ret.events = <<"trace_start", "iteration_start", "model_end", "tool_start",
                      "tool_end", "iteration_start", "model_end", "answer", "trace_end">>

\* C32: a value of the schema written as line-structured text and parsed by
\* from_raw gives the same field values, and so does the value written as
\* minified JSON
C32_RoundTrip ==
    Called("round_trip") =>
        /\ ret.raised = "none"
        /\ ret.action = arg.value.action
        /\ ret.response.text = arg.value.response

\* C36: a text that follows the line-structured instructions, `action: tool`
\* and `response: name({json-object})`, is parsed into action tool with the
\* call expression as response, whatever the keys of the JSON object are
\* (keys of the schema or not)
C36_InstructedToolCall ==
    (/\ Called("from_raw")
     /\ arg.cls = "ReAct"
     /\ arg.raw.kind = "string"
     /\ arg.raw.json.found \in {"nofields", "fields"}
     /\ arg.raw.toon = [action |-> "tool", response |-> TRUE, others |-> "none"])
    => /\ ret.raised = "none"
       /\ ret.via = "toon"
       /\ ret.action = "tool"
       /\ ret.response.src = "field"

\* C33: the durable log is strictly ordered under concurrent producers: the
\* lines of the log are in increasing seq order, no event is written before
\* an event with a smaller seq
C33_LogInSeqOrder ==
    \A i, j \in 1..Len(log) : i < j => log[i] < log[j]

\* C34: once stop() has returned and until start() or an accepted submit
\* starts a worker again (_worker_task is None all that time), no worker is
\* running and no request is taken from the queue: the requests waiting stay
\* as they are, in their order, for the next worker (a submit appends one)
C34_StopShutsDown ==
    [][workerTask = 0 =>
          /\ LiveWorkers = {}
          /\ \/ queue' = queue
             \/ \E c \in Calls : queue' = Append(queue, c)]_vars

\* C35: a request that was enqueued cannot be withdrawn.  A request leaves
\* the queue only from its head and into a worker that invokes the agent for
\* it, also when its handle was completed by the cancellation of the
\* caller's wait; and when the invocation for a request with a cancelled
\* handle ends, the handle and every other handle stay as they are, no
\* resolution is recorded, and the worker goes on: it takes the next request
\* when one waits, else it waits in queue.get
C35_CancelledStillInvoked ==
    [][/\ (queue # <<>> /\ queue' = Tail(queue)) =>
              \E t \in Tasks : /\ tstate'[t] = "invoking"
                               /\ treq'[t] = Head(queue)
                               /\ treq[t] # Head(queue)
       /\ \A t \in Tasks :
              (/\ tstate[t] = "invoking"
               /\ ~tcancel[t]
               /\ fut[treq[t]].state = "cancelled"
               /\ treq'[t] # treq[t]) =>
                  /\ fut' = fut
                  /\ resolutions' = resolutions
                  /\ raised' = raised
                  /\ IF queue # <<>>
                     THEN tstate'[t] = "invoking" /\ treq'[t] = Head(queue)
                     ELSE tstate'[t] = "waiting"]_vars

\* the caller of the first request gave up waiting before the worker took
\* it; the worker has been through both requests and resolved the second
C35_Witness ==
    /\ fut[1].state = "cancelled"
    /\ fut[2].state = "result"
    /\ queue = <<>>
    /\ enqueued = <<1, 2>>
    /\ resolutions = <<[req |-> 2, kind |-> "result", by |-> 1]>>
    /\ tstate = <<"waiting", "free">>

\* C37: lifecycle events are paired and properly nested.  Read in seq order,
\* the lifecycle events of the log are brackets that match: an end event
\* closes the innermost start event not yet closed, which is of its kind
\* (trace_end closes trace_start, agent_end closes agent_start), of its agent
\* and of its trace id; a trace_start is never inside another scope; the
\* start events not yet closed are those of the scopes that are open, so
\* each start event gets exactly one end event when its scope is left, by a
\* return or an exception, and none before; hence trace_start < agent_start
\* < agent_end < trace_end for a nested scope
C37_LifecyclePaired ==
    LET evs == arg.log
        RECURSIVE Open(_, _)
        Open(i, st) ==
            IF i > Len(evs) THEN [ok |-> TRUE, st |-> st]
            ELSE LET e == evs[i] IN
                 IF e.type = "trace_start"
                 THEN IF st = <<>> THEN Open(i + 1, <<e>>) ELSE [ok |-> FALSE, st |-> <<>>]
                 ELSE IF e.type = "agent_start"
                 THEN Open(i + 1, <<e>> \o st)
                 ELSE IF /\ st # <<>>
                         /\ Head(st).agent = e.agent
                         /\ Head(st).trace_id = e.trace_id
                         /\ Head(st).type = (IF e.type = "trace_end" THEN "trace_start"
                                             ELSE "agent_start")
                 THEN Open(i + 1, Tail(st))
                 ELSE [ok |-> FALSE, st |-> <<>>]
        open == Open(1, <<>>)
    IN /\ \A i \in 1..Len(evs) : evs[i].seq = i
       /\ open.ok
       /\ Len(open.st) = Len(scopes)
       /\ \A k \in 1..Len(scopes) :
              /\ open.st[k].agent = scopes[k].agent
              /\ open.st[k].trace_id = scopes[k].trace
              /\ open.st[k].type = (IF scopes[k].root THEN "trace_start" ELSE "agent_start")

\* a root invocation ran a nested agent and both scopes are closed
C37_Witness ==
    /\ scopes = <<>>
    /\ Len(arg.log) = 4
    /\ arg.log[1].type = "trace_start" /\ arg.log[1].agent = "orch"
    /\ arg.log[2].type = "agent_start" /\ arg.log[2].agent = "sub"
    /\ arg.log[3].type = "agent_end" /\ arg.log[3].agent = "sub"
    /\ arg.log[4].type = "trace_end" /\ arg.log[4].agent = "orch"
    /\ \A i \in 1..4 : arg.log[i].trace_id = 1 /\ arg.log[i].seq = i

\* C38: every call expression name({...}) found in the response of a tool
\* iteration yields exactly one call, with the decoded arguments or, when
\* decoding fails, with the matched text as the argument query; no call is
\* dropped and the calls are in textual order (the loop then handles them
\* one by one in that order and joins their observations into one message)
C38_EveryCallOnce ==
    Called("parse_tool_calls") =>
        LET found == SelectSeq([i \in 1..Len(arg.pieces) |-> i],
                               LAMBDA i : arg.pieces[i] # "prose")
        IN /\ ret.raised = "none"
           /\ Len(ret.calls) = Len(found)
           /\ \A k \in 1..Len(found) :
                  /\ ret.calls[k].at = found[k]
                  /\ ret.calls[k].args = (IF arg.pieces[found[k]] = "call" THEN "decoded"
                                          ELSE "query")

\* C39: at every point during and after an invoke the history of the agent
\* has at most 1 + 2 * max_iterations messages
C39_HistoryBounded ==
    Len(history[RootAgent]) <= 1 + 2 * maxIter[RootAgent]

\* the executions s alternate, the first being of _initialize_impl
Alternate(s) ==
    \A i \in 1..Len(s) :
        s[i].hook = (IF i % 2 = 1 THEN "_initialize_impl" ELSE "_shutdown_impl")

\* no hook execution begins before the one begun before it has ended
NeverOverlap ==
    \A i \in 1..Len(hookLog) :
        hookLog[i].ev = "begin" /\ i < Len(hookLog) =>
            /\ hookLog[i + 1].call = hookLog[i].call
            /\ hookLog[i + 1].ev # "begin"

\* a step in which a hook begins is of initialize() on an object that is not
\* initialized or of shutdown() on one that is; a step in which a hook raises
\* leaves the flag as it was and the lock released; a call that is over
\* does not hold the lock
HookStep ==
    /\ \A i \in (Len(hookLog) + 1)..Len(hookLog') :
           /\ hookLog'[i].ev = "begin" =>
                  isInitialized = (hookLog'[i].hook = "_shutdown_impl")
           /\ hookLog'[i].ev = "raise" =>
                  /\ isInitialized' = isInitialized
                  /\ lockOwner' = 0
    /\ \A c \in Lifecyclers :
           rpc'[c] \in {"returned", "raised"} => lockOwner' # c

\* C40: for any interleaving of concurrent initialize() and shutdown() calls
\* on one RuntimeObject the executions of the hooks never overlap and
\* strictly alternate, the first being of _initialize_impl; initialize() on
\* an initialized object and shutdown() on an uninitialized one run no hook;
\* a hook that raises leaves the flag as it was and the lock released
C40_HooksAlternate ==
    /\ [](NeverOverlap /\ Alternate(SelectSeq(hookLog, LAMBDA e : e.ev = "begin")))
    /\ [][HookStep]_vars

\* C40, amended: the executions never overlap, and those that end without
\* raising strictly alternate, the first being of _initialize_impl (an
\* execution that raised is followed by an execution of the same hook); the
\* rest as stated
C40_CompletedHooksAlternate ==
    /\ [](NeverOverlap /\ Alternate(SelectSeq(hookLog, LAMBDA e : e.ev = "end")))
    /\ [][HookStep]_vars

\* an _initialize_impl that raised while a shutdown() waited for the lock (and
\* then ran no hook), an _initialize_impl that ended, an initialize() that ran
\* no hook, and a _shutdown_impl that ended
C40_Witness ==
    /\ Len(hookLog) = 6
    /\ hookLog[2].ev = "raise" /\ hookLog[2].hook = "_initialize_impl"
    /\ hookLog[4].ev = "end" /\ hookLog[4].hook = "_initialize_impl"
    /\ hookLog[6].ev = "end" /\ hookLog[6].hook = "_shutdown_impl"
    /\ \E c \in Lifecyclers : rpc[c] = "returned" /\ \A i \in 1..6 : hookLog[i].call # c
    /\ ~isInitialized /\ ~locked

====
